---- MODULE Spec2Model ----
(***************************************************************************)
(* Trust-and-taste-NKUST: three Node servers that confirm an externally    *)
(* signed XRPL transaction and then drive follow-on ledger mutations.      *)
(*                                                                         *)
(*   MPT-Issuer/server.mjs   GET /api/payload/:uuid  (swap saga)           *)
(*   AI-order/server.js      POST /create-order, GET /buy/status, sweeper  *)
(*   Smart-Locker/server.js  GET /api/redeem/status  (burn => unlock)      *)
(*                                                                         *)
(* Every `await` of a handler is a suspension point: a handler is modelled *)
(* as one action per run of synchronous code between two awaits.           *)
(***************************************************************************)
EXTENDS Integers, Sequences, FiniteSets, TLC

(***************************************************************************)
(* Bounds of the model                                                     *)
(***************************************************************************)
NAuditTx == 2
NReq == 2
\* concurrent GET /api/payload/:uuid requests (request slots)
NUuid == 1
\* swap payload uuids
MaxPolls == 3
\* GET /api/payload/:uuid requests started over one behaviour
MaxCrash == 1
MaxManual == 1
\* process crashes (restart keeps data.sqlite, loses the running requests)

NCReq == 2
\* concurrent POST /create-order requests (request slots)
MaxCreates == 3
\* POST /create-order requests started over one behaviour
MaxTime == 4
\* the clock stops here (SpecCreate)
NBReq == 2
\* concurrent GET /buy/status requests (request slots)
MaxBuyPolls == 3
\* GET /buy/status requests started over one behaviour
MaxJumps == 1
\* long waits (longer than a TTL) over one behaviour (SpecBuy)
NLReq == 2
\* concurrent GET /api/redeem/status requests (request slots)
NBurn == 2
\* burn payload uuids
MaxLPolls == 3
\* GET /api/redeem/status requests started over one behaviour

Reqs == 1..NReq
Uuids == 1..NUuid

VARIABLES
  \* ---- MPT-Issuer ----
  kv,          \* kv table: done markers, kv[u][step] = txid, 0 = no row
  policy,      \* kv table: POLICY_* flags and BLACKLIST_<payer>
  issuance,    \* KFD_ISSUANCE_ID / ledger entry of the active issuance
  ledgerTx,    \* the transaction behind payload u, as xumm and the ledger report it
  submitted,   \* ledger: submissions made by submitAsIssuer, per (uuid, step); uuid 0 = the manual endpoints
  applied,     \* ledger: submissions validated with tesSUCCESS, per (uuid, step)
  req,         \* the running GET /api/payload/:uuid requests
  polls,       \* requests started so far
  crashed,     \* crashes so far
  overlapped,  \* history: two requests for one uuid were in progress together
  audit        \* audit tables: rows by table; what the last INSERT raised; whether tryInsert* threw

VARIABLES
  \* ---- AI-order ----
  now,                    \* Date.now(), in units of 30 s
  createOrderCache,       \* orderKey -> { response, createdAt }
  createOrderInflight,    \* orderKey -> the slot of the request whose job it is, 0 = no entry
  ordersByPaymentPayload, \* payload_uuid -> order
  creq,                   \* the running POST /create-order requests
  calls,                  \* provider: xumm.payload.create calls made, per order key
  payloads,               \* provider: payloads returned with a uuid, per order key
  lastPayloadAt,          \* history: when the last payload of an order key was cached
  creates,                \* POST /create-order requests started so far
  completedByPayload,     \* payload_uuid -> { result, completedAt }
  txCache,                \* txid -> final response (+ __cachedAt)
  inflight,               \* txid -> Promise: TRUE = the map has an entry
  processedTx,            \* txids whose mint loop was started
  xummPayload,            \* provider: what xumm.payload.get reports for a payload
  orderLedger,            \* ledger: the transaction with a given txid
  breq,                   \* the running GET /buy/status requests
  minted,                 \* ledger: NFTs minted for a txid
  mintRuns,               \* history: mint loops started for a txid
  txHistory,              \* history: verdicts of verifyPaymentTx for a txid; an outcome was cached
  buyPolls                \* GET /buy/status requests started so far

VARIABLES
  \* ---- Smart-Locker ----
  redeems,      \* burn_uuid -> { account, nftokenId, unlocked }
  burnPayload,  \* provider: what xumm.payload.get reports for a burn payload
  holderNfts,   \* ledger: the NFTokenIDs account_nfts lists for the holder
  lreq,         \* the running GET /api/redeem/status requests
  opens,        \* the "[OPEN]" actions produced, per burn uuid
  lpolls        \* GET /api/redeem/status requests started so far

swapVars == <<kv, policy, issuance, ledgerTx, submitted, applied, req, polls,
              crashed, overlapped, audit>>

createVars == <<createOrderCache, createOrderInflight, creq, calls, payloads,
                lastPayloadAt, creates>>

buyVars == <<completedByPayload, txCache, inflight, processedTx, xummPayload,
             orderLedger, breq, minted, mintRuns, txHistory, buyPolls>>

orderVars == <<now, ordersByPaymentPayload, createVars, buyVars>>

VARIABLES
  \* ---- polling loops of the servers' clients ----
  loop          \* the confirmation polling loop under way: its name, position and counter

lockerVars == <<redeems, burnPayload, holderNfts, lreq, opens, lpolls>>

clientVars == <<loop>>

vars == <<swapVars, orderVars, lockerVars, clientVars>>

(***************************************************************************)
(* MPT-Issuer: the swap saga                                               *)
(***************************************************************************)
Steps == {"authorize", "issue", "clawback", "lock", "unlock"}

\* An amount as the ledger reports it (meta.delivered_amount, Amount): a
\* string of drops (n = the drops), an issued-currency object (n = its
\* value in hundredths, written with two decimals), or absent.
NoPaid == [type |-> "undefined", n |-> 0, currency |-> ""]
XrpPaid(d) == [type |-> "string", n |-> d, currency |-> ""]
IouPaid(cur, c) == [type |-> "object", n |-> c, currency |-> cur]

\* Transactions a payload can resolve to.  delivered = meta.delivered_amount
\* (or meta.DeliveredAmount), amount = DeliverMax ?? SendMax ?? Amount.
TxUnsigned == [signed |-> FALSE, validated |-> FALSE, type |-> "none",
               result |-> "none", dest |-> "none", delivered |-> NoPaid,
               amount |-> NoPaid]
TxGood == [signed |-> TRUE, validated |-> FALSE, type |-> "Payment",
           result |-> "tesSUCCESS", dest |-> "issuer",
           delivered |-> XrpPaid(1000000), amount |-> XrpPaid(1000000)]
TxWrongDest == [TxGood EXCEPT !.dest = "other"]
TxFailed == [TxGood EXCEPT !.result = "tecUNFUNDED_PAYMENT", !.delivered = NoPaid]
TxNotPayment == [TxGood EXCEPT !.type = "MPTokenAuthorize", !.dest = "none",
                               !.delivered = NoPaid, !.amount = NoPaid]
\* a partial payment: 0.4 XRP delivered of the 1 XRP asked for
TxTiny == [TxGood EXCEPT !.delivered = XrpPaid(400000)]
TxKinds == {TxGood, TxWrongDest, TxFailed, TxNotPayment, TxTiny}

\* String.prototype.toUpperCase on the currency codes of the model
toUpperCase(str) == CASE str = "rlusd" -> "RLUSD" [] OTHER -> str

\* Math.floor(Number(value) * 100) for value = c / 100, 0 <= c < 400.  For
\* the c of RoundsBelow the product in IEEE-754 doubles lies below c:
\* Number("0.29") * 100 = 28.999999999999996
MathFloorTimes100(c) ==
  LET RoundsBelow == {29, 57, 58, 113, 114, 115, 116, 201, 203, 205, 207, 226,
                      228, 230, 232, 251, 253, 255}
  IN  IF c \in RoundsBelow THEN c - 1 ELSE c

\* calcMptToSendFromPayment with line 207 before lines 205-206: the
\* requested amount first
calcMptToSendFromPayment_AmountFirst(tx) ==
  LET paid == IF tx.amount # NoPaid THEN tx.amount ELSE tx.delivered
  IN  CASE paid.type = "string" ->
             IF paid.n <= 0 THEN 0 ELSE (2 * paid.n) \div 1000000
        [] paid.type = "object" ->
             IF paid.n <= 0 THEN 0
             ELSE IF toUpperCase(paid.currency) = "RLUSD" THEN MathFloorTimes100(paid.n)
             ELSE 0
        [] OTHER -> 0

\* calcMptToSendFromPayment: delivered_amount first, then Amount.  Drops
\* give Math.floor(drops / 1e6 * 2), which is exact for the drops a ledger
\* can hold; an RLUSD value gives Math.floor(value * 100); the rest 0.
calcMptToSendFromPayment(tx) ==
  LET paid == IF tx.delivered # NoPaid THEN tx.delivered ELSE tx.amount
  IN  CASE paid.type = "string" ->
             IF paid.n <= 0 THEN 0 ELSE (2 * paid.n) \div 1000000
        [] paid.type = "object" ->
             IF paid.n <= 0 THEN 0
             ELSE IF toUpperCase(paid.currency) = "RLUSD" THEN MathFloorTimes100(paid.n)
             ELSE 0
        [] OTHER -> 0

NoPolicy == [autoLock |-> FALSE, autoUnlock |-> FALSE, autoClaw |-> FALSE,
             blacklisted |-> FALSE]
Policies == [autoLock : BOOLEAN, autoUnlock : BOOLEAN, autoClaw : BOOLEAN,
             blacklisted : BOOLEAN]
Issuances == [idSet : BOOLEAN, nodeFound : BOOLEAN, requireAuth : BOOLEAN,
              canClawback : BOOLEAN, canLock : BOOLEAN]

\* a request slot that runs no handler; mptToSend = -1 is `null`
IdleReq == [pc |-> "idle", uuid |-> 0, alreadyIssued |-> 0, pol |-> NoPolicy,
            act |-> [s \in Steps |-> "none"], auto |-> "none", step |-> "none",
            mptToSend |-> -1, txid |-> [s \in Steps |-> 0]]

\* outcome of one step in `actions`:
\*   "ok"      {ok: true, txid}             "already" {ok: true, already: true, txid}
\*   "skip"    {ok: true, skipped: true}    "nocap"   {ok: false, skipped: true}
\*   "fail"    {ok: false, error}           "none"    null
Out(q, s, o) == [q EXCEPT !.act[s] = o]

\* {ok: true, txid} and {ok: true, already: true, txid}: the txid reported
OutTx(q, s, o, txid) == [q EXCEPT !.act[s] = o, !.txid[s] = txid]

\* the handler stops with auto = {ok: false, stage} (or ok: true) and answers
Finish(q, stage) == [q EXCEPT !.auto = stage, !.pc = "done"]

\* the handler calls issuerAuthorizeHolder / issuerSendMPT / ... and awaits
Await(q, s) == [q EXCEPT !.pc = "wait", !.step = s]

\* line 869: the issue marker read at line 789, before the authorize await
IssueAlreadyDone(q, k) == q.alreadyIssued # 0

\* the marker test of a step never taken
StepAlreadyDone_Never(k, s) == FALSE

\* lines 798, 922, 980, 1041: markers read when the step is reached
StepAlreadyDone(k, s) == k[s] # 0

\* actions.clawback?.ok === true && !actions.clawback?.skipped
ClawbackRan(act) == act["clawback"] \in {"ok", "already"}

\* the clawback condition read from the kv table when the step is reached
ClawbackSelected_Live(pol) == policy.autoClaw /\ policy.blacklisted

ClawbackSelected(pol) == pol.autoClaw /\ pol.blacklisted

\* the lock condition without the clawback test of line 969
LockSelected_AfterClawback(pol, act) == pol.autoLock

LockSelected(pol, act) == pol.autoLock /\ ~ClawbackRan(act)

\* lines 1011-1017: the reason reported with lock = {ok: true, skipped: true}
LockSkipReason(pol) ==
  IF pol.autoLock THEN "SKIPPED_AFTER_SUCCESSFUL_CLAWBACK"
  ELSE "AUTO_LOCK_POLICY_DISABLED"

\* the unlock condition without the tests of lines 1028-1029
UnlockSelected_Always(pol, act) == pol.autoUnlock

UnlockSelected(pol, act) == pol.autoUnlock /\ ~pol.autoLock /\ ~ClawbackRan(act)

\* The synchronous code of the handler from `stage` on, up to the next
\* awaited submission or the response.  k = the done markers of q.uuid.
RECURSIVE Walk(_, _, _)
Walk(stage, q, k) ==
  CASE stage = "authorize" ->
         IF ~issuance.requireAuth THEN Walk("calc", Out(q, "authorize", "skip"), k)
         ELSE IF StepAlreadyDone(k, "authorize")
              THEN Walk("calc", OutTx(q, "authorize", "already", k["authorize"]), k)
              ELSE Await(q, "authorize")
    [] stage = "calc" ->
         LET q1 == [q EXCEPT !.mptToSend = calcMptToSendFromPayment(ledgerTx[q.uuid])]
         IN  IF q1.mptToSend <= 0
             THEN Finish(q1, "calc")
             ELSE Walk("issue", q1, k)
    [] stage = "issue" ->
         IF IssueAlreadyDone(q, k)
         THEN Walk("clawback", OutTx(q, "issue", "already", q.alreadyIssued), k)
         ELSE Await(q, "issue")
    [] stage = "clawback" ->
         IF ClawbackSelected(q.pol)
         THEN IF ~issuance.canClawback
              THEN Walk("lock", Out(q, "clawback", "nocap"), k)
              ELSE IF StepAlreadyDone(k, "clawback")
                   THEN Walk("lock", OutTx(q, "clawback", "already", k["clawback"]), k)
                   ELSE Await(q, "clawback")
         ELSE Walk("lock", Out(q, "clawback", "skip"), k)
    [] stage = "lock" ->
         IF LockSelected(q.pol, q.act)
         THEN IF ~issuance.canLock
              THEN Walk("unlock", Out(q, "lock", "nocap"), k)
              ELSE IF StepAlreadyDone(k, "lock")
                   THEN Walk("unlock", OutTx(q, "lock", "already", k["lock"]), k)
                   ELSE Await(q, "lock")
         ELSE Walk("unlock", Out(q, "lock", "skip"), k)
    [] stage = "unlock" ->
         IF UnlockSelected(q.pol, q.act)
         THEN IF ~issuance.canLock
              THEN Walk("final", Out(q, "unlock", "nocap"), k)
              ELSE IF StepAlreadyDone(k, "unlock")
                   THEN Walk("final", OutTx(q, "unlock", "already", k["unlock"]), k)
                   ELSE Await(q, "unlock")
         ELSE Walk("final", Out(q, "unlock", "skip"), k)
    [] OTHER -> Finish(q, "ok")

\* the stage the handler goes to after step s
NextStage(s) ==
  CASE s = "authorize" -> "calc"
    [] s = "issue" -> "clawback"
    [] s = "clawback" -> "lock"
    [] s = "lock" -> "unlock"
    [] OTHER -> "final"

\* the failure branch of authorize and issue without `auto = {ok: false}`:
\* the run goes on to the next step
StepFailed_GoOn(q, s, k) == Walk(NextStage(s), Out(q, s, "fail"), k)

\* the failure branch of a step without the `else` of lines 932-936,
\* 989-993, 1051-1055: the run stops at the failed step
StepFailed_Abort(q, s, k) == Finish(q, s)

\* the submission of step s came back with ok: false.  authorize and issue
\* (lines 806-815, 878-887) set auto = {ok: false, stage}; clawback, lock and
\* unlock (lines 932-936, 989-993, 1051-1055) record {ok: false, error} in
\* actions and the handler goes on
StepFailed(q, s, k) ==
  IF s \in {"authorize", "issue"} THEN Finish(q, s)
  ELSE Walk(NextStage(s), Out(q, s, "fail"), k)

\* the handler without the bootstrap checks of lines 746-761
Prelude_NoBootstrap(u) ==
  LET tx == ledgerTx[u]
      q == [IdleReq EXCEPT !.uuid = u]
  IN  IF ~tx.signed THEN Finish(q, "none")
      ELSE IF ~tx.validated THEN Finish(q, "none")
      ELSE Walk("authorize",
                [q EXCEPT !.pol = policy, !.alreadyIssued = kv[u]["issue"]],
                kv[u])

\* lines 735-789: what the handler does before the first step
Prelude(u) ==
  LET tx == ledgerTx[u]
      q == [IdleReq EXCEPT !.uuid = u]
  IN  IF ~tx.signed THEN Finish(q, "none")
      ELSE IF ~tx.validated THEN Finish(q, "none")
      ELSE IF ~issuance.idSet \/ ~issuance.nodeFound THEN Finish(q, "bootstrap")
      ELSE Walk("authorize",
                [q EXCEPT !.pol = policy, !.alreadyIssued = kv[u]["issue"]],
                kv[u])

\* submitAsIssuer, as the awaiting handler sees it: the ledger validated
\* the transaction with tesSUCCESS ("ok") or with a tec code ("fail"), or
\* the call threw before the ledger saw anything ("throw")
SubmitResults == {"ok", "fail", "throw"}

\* the slot a new request takes: the first one that awaits nothing (a slot
\* that has answered keeps its response until it is taken again)
FreeSlot(r) ==
  /\ req[r].pc # "wait"
  /\ \A r2 \in Reqs : r2 < r => req[r2].pc = "wait"

\* the audit table and the `source` of the row that each step writes
AuditOf(s) ==
  CASE s = "authorize" -> [table |-> "authorizations", source |-> "AUTO_AUTHORIZE_SWAP"]
    [] s = "issue" -> [table |-> "transfers", source |-> "SWAP_AUTO"]
    [] s = "clawback" -> [table |-> "clawbacks", source |-> "AUTO_CLAWBACK_SWAP_BLACKLIST"]
    [] s = "lock" -> [table |-> "account_locks", source |-> "AUTO_LOCK_AFTER_SWAP"]
    [] OTHER -> [table |-> "account_locks", source |-> "AUTO_UNLOCK_AFTER_SWAP"]

\* the tables right after the schema was created
NoAudit == [rows |-> [tb \in {AuditOf(s).table : s \in Steps} |-> {}],
            error |-> "", threw |-> FALSE]

\* tryInsert* without the UNIQUE constraint on txid
tryInsert_NoUnique(a, table, txid, source) ==
  IF txid = <<>> THEN [a EXCEPT !.error = "", !.threw = FALSE]
  ELSE [rows |-> [a.rows EXCEPT ![table] = @ \cup {[txid |-> txid, source |-> source]}],
        error |-> "", threw |-> FALSE]

\* tryInsertAuthorization / Transfer / Clawback / LockAction, lines 131-194:
\* nothing without a txid (<<>>); the INSERT raises "UNIQUE" when the table
\* has a row with this txid (txid TEXT NOT NULL UNIQUE), and the catch
\* rethrows every error but that one
tryInsert(a, table, txid, source) ==
  IF txid = <<>> THEN [a EXCEPT !.error = "", !.threw = FALSE]
  ELSE LET raised == IF \E row \in a.rows[table] : row.txid = txid
                     THEN "UNIQUE" ELSE ""
       IN  [rows |-> IF raised = "" THEN [a.rows EXCEPT ![table] =
                                            @ \cup {[txid |-> txid, source |-> source]}]
                     ELSE a.rows,
            error |-> raised,
            threw |-> raised \notin {"", "UNIQUE"}]

\* GET /api/payload/:uuid arrives and runs to its first awaited submission
\* or to its response
SwapPoll(r, u) ==
  /\ FreeSlot(r)
  /\ polls < MaxPolls
  /\ polls' = polls + 1
  /\ overlapped' = (overlapped \/
                      \E r2 \in Reqs \ {r} : req[r2].pc = "wait" /\ req[r2].uuid = u)
  /\ req' = [req EXCEPT ![r] = Prelude(u)]
  /\ UNCHANGED <<audit, kv, policy, issuance, ledgerTx, submitted, applied, crashed,
                 orderVars, lockerVars, clientVars>>

\* the awaited submission returns with result o: kvSet + audit row on
\* success, then the handler runs on to the next awaited submission or to
\* the response.  The ledger's counters are brought up to date here.
SwapResume(r, o) ==
  LET q == req[r]
      u == q.uuid
      s == q.step
      q0 == [q EXCEPT !.step = "none"]
      t == submitted[u][s] + 1
  IN  /\ q.pc = "wait"
      /\ submitted' = [submitted EXCEPT ![u][s] = @ + (IF o = "throw" THEN 0 ELSE 1)]
      /\ applied' = [applied EXCEPT ![u][s] = @ + (IF o = "ok" THEN 1 ELSE 0)]
      /\ kv' = IF o = "ok" THEN [kv EXCEPT ![u][s] = t] ELSE kv
      /\ req' = [req EXCEPT ![r] =
                   CASE o = "ok" -> Walk(NextStage(s), OutTx(q0, s, "ok", t), kv'[u])
                     [] o = "fail" -> StepFailed(q0, s, kv[u])
                     [] OTHER -> Finish(q0, "error500")]
      /\ audit' = IF o = "ok"
                   THEN tryInsert(audit, AuditOf(s).table, <<u, s, t>>, AuditOf(s).source)
                   ELSE audit
      /\ UNCHANGED <<policy, issuance, ledgerTx, polls, crashed, overlapped,
                 orderVars, lockerVars, clientVars>>

\* the number of requests of A that await step s of uuid u
Awaiting(A, u, s) == Cardinality({r \in A : req[r].uuid = u /\ req[r].step = s})

\* The process dies while submissions are awaited.  The ledger has
\* validated those of the requests in A (any of the waiting ones); no
\* handler resumes, so no marker is written for them.  data.sqlite and the
\* ledger keep what they have, the running requests are gone.
SwapCrash(A) ==
  /\ crashed < MaxCrash
  /\ \E r \in Reqs : req[r].pc = "wait"
  /\ A \subseteq {r \in Reqs : req[r].pc = "wait"}
  /\ crashed' = crashed + 1
  /\ submitted' = [u \in Uuids \cup {0} |->
                   [s \in Steps |-> submitted[u][s] + Awaiting(A, u, s)]]
  /\ applied' = [u \in Uuids \cup {0} |->
                   [s \in Steps |-> applied[u][s] + Awaiting(A, u, s)]]
  /\ req' = [r \in Reqs |-> IdleReq]
  /\ UNCHANGED <<audit, kv, policy, issuance, ledgerTx, polls, overlapped,
                 orderVars, lockerVars, clientVars>>

\* the user signs the payload in the wallet: xumm reports signed + txid
XummSign(u, tx) ==
  /\ ~ledgerTx[u].signed
  /\ ledgerTx' = [ledgerTx EXCEPT ![u] = tx]
  /\ UNCHANGED <<audit, kv, policy, issuance, submitted, applied, req, polls, crashed,
                 overlapped,
                 orderVars, lockerVars, clientVars>>

\* the ledger validates the signed transaction
LedgerValidate(u) ==
  /\ ledgerTx[u].signed
  /\ ~ledgerTx[u].validated
  /\ ledgerTx' = [ledgerTx EXCEPT ![u].validated = TRUE]
  /\ UNCHANGED <<audit, kv, policy, issuance, submitted, applied, req, polls, crashed,
                 overlapped,
                 orderVars, lockerVars, clientVars>>

\* bodies of POST /api/kfd/policy: each flag is TRUE, FALSE or left out
PolicyBodies == [autoLock : {"1", "0", "undefined"}, autoUnlock : {"1", "0", "undefined"},
                 autoClaw : {"1", "0", "undefined"}]

\* lines 1256-1264: a flag that the body carries is written, the others stay
SetFlag(old, v) == IF v = "undefined" THEN old ELSE v = "1"

\* POST /api/kfd/policy
PostPolicy(body) ==
  /\ policy' = [policy EXCEPT !.autoLock = SetFlag(@, body.autoLock),
                              !.autoUnlock = SetFlag(@, body.autoUnlock),
                              !.autoClaw = SetFlag(@, body.autoClaw)]
  /\ UNCHANGED <<audit, kv, issuance, ledgerTx, submitted, applied, req, polls, crashed,
                 overlapped, orderVars, lockerVars, clientVars>>

\* POST /api/kfd/blacklist/add and /remove for the payer
PostBlacklist(listed) ==
  /\ policy' = [policy EXCEPT !.blacklisted = listed]
  /\ UNCHANGED <<audit, kv, issuance, ledgerTx, submitted, applied, req, polls, crashed,
                 overlapped, orderVars, lockerVars, clientVars>>

\* the capability flag of the issuance that step s needs
Capable_Always(s) == TRUE

Capable(s) == IF s = "clawback" THEN issuance.canClawback ELSE issuance.canLock

\* POST /api/kfd/clawback, /lock, /unlock (lines 1117-1243) for a well-formed
\* body: 400 without a submission when the issuance is not ready or lacks
\* the capability; else the submission, which comes back with o, and the
\* audit row on success
ManualKfd(s, o) ==
  /\ s \in {"clawback", "lock", "unlock"}
  /\ submitted[0][s] < MaxManual
  /\ IF issuance.idSet /\ issuance.nodeFound /\ Capable(s)
     THEN /\ submitted' = [submitted EXCEPT ![0][s] = @ + (IF o = "throw" THEN 0 ELSE 1)]
          /\ applied' = [applied EXCEPT ![0][s] = @ + (IF o = "ok" THEN 1 ELSE 0)]
          /\ audit' = IF o = "ok"
                      THEN tryInsert(audit, AuditOf(s).table, <<0, s, submitted[0][s] + 1>>,
                                     CASE s = "clawback" -> "API_CLAWBACK"
                                       [] s = "lock" -> "API_LOCK"
                                       [] OTHER -> "API_UNLOCK")
                      ELSE audit
     ELSE UNCHANGED <<submitted, applied, audit>>
  /\ UNCHANGED <<kv, policy, issuance, ledgerTx, req, polls, crashed, overlapped,
                 orderVars, lockerVars, clientVars>>

(***************************************************************************)
(* AI-order: POST /create-order                                            *)
(***************************************************************************)
\* src/AI-order/server.js:94, in units of 30 s
CREATE_ORDER_CACHE_MS == 2

CReqs == 1..NCReq
PUuids == 1..MaxCreates

\* products[id].price
Price(id) == CASE id = 1 -> 1 [] id = 2 -> 2 [] id = 3 -> 2 [] OTHER -> 0

RECURSIVE calcOrderTotal(_)
calcOrderTotal(items) ==
  IF items = <<>> THEN 0
  ELSE Head(items).qty * Price(Head(items).product_id) + calcOrderTotal(Tail(items))

\* request bodies of POST /create-order
OrderInputs ==
  { [payment_method |-> m, buyer |-> "rBuyer",
     items |-> <<[product_id |-> 2, qty |-> 1]>>] : m \in {"mpt", "rlusd"} }

\* `${paymentMethod}|${buyer || ""}|${stableStringify(items || [])}`
buildCreateOrderKey(in) == <<in.payment_method, in.buyer, in.items>>

Keys == {buildCreateOrderKey(in) : in \in OrderInputs}

NoEntry == [uuid |-> 0, createdAt |-> 0]

NoOrder == [status |-> "none", buyer |-> "", paymentMethod |-> "", total |-> 0,
            units |-> 0, createdAt |-> 0, completedAt |-> 0, txid |-> 0,
            orderKey |-> <<>>]

RECURSIVE orderUnits(_)
orderUnits(items) ==
  IF items = <<>> THEN 0 ELSE Head(items).qty + orderUnits(Tail(items))

\* lines 588-598
NewOrder(in, t) ==
  [status |-> "created", buyer |-> in.buyer, paymentMethod |-> in.payment_method,
   total |-> calcOrderTotal(in.items), units |-> orderUnits(in.items),
   createdAt |-> t, completedAt |-> 0, txid |-> 0,
   orderKey |-> buildCreateOrderKey(in)]

\* a request slot that runs no handler.  resp: 0 = none, -1 = error
\* response, n > 0 = payload_uuid n
NoInput == [payment_method |-> "", buyer |-> "", items |-> <<>>]
\* trust: what checkStoreRlusdTrustLine reported to the job ("" = not asked)
IdleCReq == [pc |-> "idle", in |-> NoInput, key |-> <<>>, resp |-> 0, via |-> "none",
             trust |-> ""]

\* line 536 with the comparison turned round
CacheFresh_Flipped(e, startedAt) ==
  e # NoEntry /\ startedAt - e.createdAt > CREATE_ORDER_CACHE_MS

\* line 536 with a window of no length
CacheFresh_NoWindow(e, startedAt) ==
  e # NoEntry /\ startedAt - e.createdAt < 0

\* line 536: cached && startedAt - cached.createdAt < CREATE_ORDER_CACHE_MS
CacheFresh(e, startedAt) ==
  e # NoEntry /\ startedAt - e.createdAt < CREATE_ORDER_CACHE_MS

\* line 542 without the lookup
InflightHas_Never(k) == FALSE

\* line 542: createOrderInflight.has(orderKey)
InflightHas(k) == createOrderInflight[k] # 0

FreeCSlot(c) ==
  /\ creq[c].pc \in {"idle", "done"}
  /\ \A c2 \in CReqs : c2 < c => creq[c2].pc \notin {"idle", "done"}

\* the uuid the provider gives its next payload
NextUuid ==
  1 + Cardinality({u \in PUuids : ordersByPaymentPayload[u].status # "none"})

\* POST /create-order arrives: lines 523-546, and for a new job lines
\* 548-571 up to its first await, then line 616
CreateOrder(c, in) ==
  LET k == buildCreateOrderKey(in)
      q == [IdleCReq EXCEPT !.in = in, !.key = k]
  IN  /\ FreeCSlot(c)
      /\ creates < MaxCreates
      /\ calcOrderTotal(in.items) > 0
      /\ creates' = creates + 1
      /\ IF CacheFresh(createOrderCache[k], now)
         THEN /\ creq' = [creq EXCEPT ![c] =
                   [q EXCEPT !.pc = "done", !.via = "cache",
                             !.resp = createOrderCache[k].uuid]]
              /\ UNCHANGED <<createOrderInflight, calls>>
         ELSE IF InflightHas(k)
         THEN /\ creq' = [creq EXCEPT ![c] = [q EXCEPT !.pc = "join", !.via = "inflight"]]
              /\ UNCHANGED <<createOrderInflight, calls>>
         ELSE /\ createOrderInflight' = [createOrderInflight EXCEPT ![k] = c]
              /\ IF in.payment_method = "rlusd"
                 THEN /\ creq' = [creq EXCEPT ![c] = [q EXCEPT !.pc = "trust", !.via = "job"]]
                      /\ UNCHANGED calls
                 ELSE /\ creq' = [creq EXCEPT ![c] = [q EXCEPT !.pc = "create", !.via = "job"]]
                      /\ calls' = [calls EXCEPT ![k] = @ + 1]
      /\ UNCHANGED <<swapVars, lockerVars, clientVars, now, ordersByPaymentPayload, createOrderCache, payloads,
                     lastPayloadAt, buyVars>>

\* The job of slot c settles with response r (-1 = it threw).  The
\* continuations run as microtasks, before any other request: the owner's
\* `finally` deletes the in-flight entry, owner and joiners answer.
Settle(c, r) ==
  LET k == creq[c].key
  IN  /\ createOrderInflight' = [createOrderInflight EXCEPT ![k] = 0]
      /\ creq' = [c2 \in CReqs |->
                    IF c2 = c \/ (creq[c2].pc = "join" /\ creq[c2].key = k)
                    THEN [creq[c2] EXCEPT !.pc = "done", !.resp = r]
                    ELSE creq[c2]]

\* checkStoreRlusdTrustLine() returns its status object, { exists: true, .. }
\* ("exists") or { exists: false, .. } ("missing"), or throws.  Line 552
\* tests the object itself, `!storeTrustOk`, and an object is never falsy.
TrustReturn(c, res) ==
  /\ creq[c].pc = "trust"
  /\ IF res # "throw"
     THEN /\ creq' = [creq EXCEPT ![c].pc = "create", ![c].trust = res]
          /\ calls' = [calls EXCEPT ![creq[c].key] = @ + 1]
          /\ UNCHANGED createOrderInflight
     ELSE /\ Settle(c, -1)
          /\ UNCHANGED calls
  /\ UNCHANGED <<swapVars, lockerVars, clientVars, now, ordersByPaymentPayload, createOrderCache, payloads,
                 lastPayloadAt, creates, buyVars>>

\* xumm.payload.create returns a payload, returns one without uuid, or throws
CreateReturn(c, res) ==
  LET k == creq[c].key
      u == NextUuid
  IN  /\ creq[c].pc = "create"
      /\ IF res = "payload"
         THEN /\ ordersByPaymentPayload' =
                   [ordersByPaymentPayload EXCEPT ![u] = NewOrder(creq[c].in, now)]
              /\ createOrderCache' =
                   [createOrderCache EXCEPT ![k] = [uuid |-> u, createdAt |-> now]]
              /\ payloads' = [payloads EXCEPT ![k] = @ + 1]
              /\ lastPayloadAt' = [lastPayloadAt EXCEPT ![k] = now]
              /\ Settle(c, u)
         ELSE /\ Settle(c, -1)
              /\ UNCHANGED <<ordersByPaymentPayload, createOrderCache, payloads,
                             lastPayloadAt>>
      /\ UNCHANGED <<swapVars, lockerVars, clientVars, now, calls, creates, buyVars>>

\* time passes
CreateTick ==
  /\ now < MaxTime
  /\ now' = now + 1
  /\ UNCHANGED <<swapVars, lockerVars, clientVars, ordersByPaymentPayload, createVars, buyVars>>

(***************************************************************************)
(* AI-order: verifyPaymentTx and GET /buy/status                           *)
(***************************************************************************)
\* src/AI-order/server.js:92 and :1077, in units of 30 s
ORDER_TTL_MS == 20
TX_CACHE_TTL == 60

BReqs == 1..NBReq
Txids == PUuids
STORE_ADDRESS == "rStore"
KFD_MPT_ISSUANCE_ID == "KFDISSUANCE"
RLUSD_ISSUER == "rRlusdIssuer"
RLUSD_CURRENCY == "RLUSD"

\* Number.prototype.toString for the totals of the model
numToString(n) ==
  CASE n = 0 -> "0" [] n = 1 -> "1" [] n = 2 -> "2" [] n = 3 -> "3"
    [] n = 4 -> "4" [] OTHER -> "many"

\* xrpl.xrpToDrops(total.toString()): the drops as a decimal string
xrpToDrops(n) ==
  CASE n = 0 -> "0" [] n = 1 -> "1000000" [] n = 2 -> "2000000"
    [] n = 3 -> "3000000" [] n = 4 -> "4000000" [] OTHER -> "many"

\* safeUpper: trim + upper case, on the strings of the model
safeUpper(str) ==
  CASE str = "rlusd" -> "RLUSD" [] str = " RLUSD " -> "RLUSD"
    [] str = "kfdissuance" -> "KFDISSUANCE" [] OTHER -> str

\* tx.Amount as the ledger reports it: a string of drops, or an object
DropsAmount(str) == [type |-> "string", value |-> str, currency |-> "",
                     issuer |-> "", mpt_issuance_id |-> ""]
IouAmount(cur, iss, val) == [type |-> "object", value |-> val, currency |-> cur,
                             issuer |-> iss, mpt_issuance_id |-> ""]
MptAmount(id, val) == [type |-> "object", value |-> val, currency |-> "",
                       issuer |-> "", mpt_issuance_id |-> id]
NoAmount == [type |-> "undefined", value |-> "", currency |-> "", issuer |-> "",
             mpt_issuance_id |-> ""]

\* the amount /create-order asks for (buildPaymentAmount)
buildPaymentAmount(paymentMethod, total) ==
  CASE paymentMethod = "xrp" -> DropsAmount(xrpToDrops(total))
    [] paymentMethod = "rlusd" -> IouAmount(RLUSD_CURRENCY, RLUSD_ISSUER, numToString(total))
    [] OTHER -> MptAmount(KFD_MPT_ISSUANCE_ID, numToString(total))

\* no transaction with this txid is known to the ledger yet
\* partial: meta.delivered_amount is smaller than Amount (a partial payment)
NoTx == [validated |-> "false", TransactionType |-> "", Account |-> "",
         Destination |-> "", result |-> "", Amount |-> NoAmount,
         partial |-> FALSE]

\* line 321: the `tx` response came without a result
TxNotFound == [NoTx EXCEPT !.validated = "no_result"]

\* verifyAmount without the issuer check of lines 380-386
verifyAmount_AnyIssuer(amt, expectedTotal, paymentMethod) ==
  CASE paymentMethod = "xrp" ->
         IF amt.type # "string" THEN "amount_not_xrp_string"
         ELSE IF amt.value # xrpToDrops(expectedTotal) THEN "amount_mismatch"
         ELSE "ok"
    [] paymentMethod = "rlusd" ->
         IF amt.type # "object" THEN "amount_not_token_object"
         ELSE IF safeUpper(amt.currency) # safeUpper(RLUSD_CURRENCY) THEN "currency_mismatch"
         ELSE IF amt.value # numToString(expectedTotal) THEN "amount_mismatch"
         ELSE "ok"
    [] paymentMethod = "mpt" ->
         IF amt.type # "object" THEN "amount_not_object"
         ELSE IF safeUpper(amt.mpt_issuance_id) # KFD_MPT_ISSUANCE_ID THEN "issuance_mismatch"
         ELSE IF amt.value # numToString(expectedTotal) THEN "amount_mismatch"
         ELSE "ok"
    [] OTHER -> "unsupported_payment_method"

\* verifyPaymentTx, lines 342-428: the comparison of tx.Amount with the
\* expected asset and total
verifyAmount(amt, expectedTotal, paymentMethod) ==
  CASE paymentMethod = "xrp" ->
         IF amt.type # "string" THEN "amount_not_xrp_string"
         ELSE IF amt.value # xrpToDrops(expectedTotal) THEN "amount_mismatch"
         ELSE "ok"
    [] paymentMethod = "rlusd" ->
         IF amt.type # "object" THEN "amount_not_token_object"
         ELSE IF safeUpper(amt.currency) # safeUpper(RLUSD_CURRENCY) THEN "currency_mismatch"
         ELSE IF amt.issuer # RLUSD_ISSUER THEN "issuer_mismatch"
         ELSE IF amt.value # numToString(expectedTotal) THEN "amount_mismatch"
         ELSE "ok"
    [] paymentMethod = "mpt" ->
         IF amt.type # "object" THEN "amount_not_object"
         ELSE IF safeUpper(amt.mpt_issuance_id) # KFD_MPT_ISSUANCE_ID THEN "issuance_mismatch"
         ELSE IF amt.value # numToString(expectedTotal) THEN "amount_mismatch"
         ELSE "ok"
    [] OTHER -> "unsupported_payment_method"

\* verifyPaymentTx without the check of lines 332-334
verifyPaymentTx_AnyDestination(threw, resp, expectedBuyer, expectedTotal, paymentMethod) ==
  IF threw THEN "not_validated_yet"
  ELSE IF resp = TxNotFound THEN "tx_not_found"
  ELSE IF resp.validated = "false" THEN "not_validated_yet"
  ELSE IF resp.TransactionType # "Payment" THEN "not_payment"
  ELSE IF resp.Account # expectedBuyer THEN "buyer_mismatch"
  ELSE IF resp.result = "" THEN "not_validated_yet"
  ELSE IF resp.result # "tesSUCCESS" THEN "not_success"
  ELSE verifyAmount(resp.Amount, expectedTotal, paymentMethod)

\* verifyPaymentTx without the check of lines 329-331
verifyPaymentTx_AnyBuyer(threw, resp, expectedBuyer, expectedTotal, paymentMethod) ==
  IF threw THEN "not_validated_yet"
  ELSE IF resp = TxNotFound THEN "tx_not_found"
  ELSE IF resp.validated = "false" THEN "not_validated_yet"
  ELSE IF resp.TransactionType # "Payment" THEN "not_payment"
  ELSE IF resp.Destination # STORE_ADDRESS THEN "destination_mismatch"
  ELSE IF resp.result = "" THEN "not_validated_yet"
  ELSE IF resp.result # "tesSUCCESS" THEN "not_success"
  ELSE verifyAmount(resp.Amount, expectedTotal, paymentMethod)

\* verifyPaymentTx without the check of lines 338-340
verifyPaymentTx_AnyResult(threw, resp, expectedBuyer, expectedTotal, paymentMethod) ==
  IF threw THEN "not_validated_yet"
  ELSE IF resp = TxNotFound THEN "tx_not_found"
  ELSE IF resp.validated = "false" THEN "not_validated_yet"
  ELSE IF resp.TransactionType # "Payment" THEN "not_payment"
  ELSE IF resp.Account # expectedBuyer THEN "buyer_mismatch"
  ELSE IF resp.Destination # STORE_ADDRESS THEN "destination_mismatch"
  ELSE IF resp.result = "" THEN "not_validated_yet"
  ELSE verifyAmount(resp.Amount, expectedTotal, paymentMethod)

\* verifyPaymentTx.  threw = client.request threw; resp = the
\* transaction it returned: validated is "true", "false" or "absent"; result is
\* meta.TransactionResult, "" when absent.  The value is the reason, "ok"
\* for {ok: true}.
verifyPaymentTx(threw, resp, expectedBuyer, expectedTotal, paymentMethod) ==
  IF threw THEN "not_validated_yet"
  ELSE IF resp = TxNotFound THEN "tx_not_found"
  ELSE IF resp.validated = "false" THEN "not_validated_yet"
  ELSE IF resp.TransactionType # "Payment" THEN "not_payment"
  ELSE IF resp.Account # expectedBuyer THEN "buyer_mismatch"
  ELSE IF resp.Destination # STORE_ADDRESS THEN "destination_mismatch"
  ELSE IF resp.result = "" THEN "not_validated_yet"
  ELSE IF resp.result # "tesSUCCESS" THEN "not_success"
  ELSE verifyAmount(resp.Amount, expectedTotal, paymentMethod)

\* what xumm.payload.get reports: meta.signed, response.account,
\* response.txid, and meta.cancelled / meta.expired as `closed` ("" = neither),
\* which the handler does not read
Unsigned == [signed |-> FALSE, account |-> "", txid |-> 0, closed |-> ""]

\* transactions a buyer can sign for an order: the one /create-order asked
\* for, one to another destination, one that the ledger ends with a tec code
OrderTxKinds == {"asked", "other_destination", "tec"}
OrderTx(acct, o, kind) ==
  LET good == [validated |-> "false", TransactionType |-> "Payment",
               Account |-> acct, Destination |-> STORE_ADDRESS,
               result |-> "tesSUCCESS",
               Amount |-> buildPaymentAmount(o.paymentMethod, o.total),
               partial |-> FALSE]
  IN  CASE kind = "other_destination" -> [good EXCEPT !.Destination = "rOther"]
        [] kind = "tec" -> [good EXCEPT !.result = "tecUNFUNDED_PAYMENT"]
        [] OTHER -> good

\* responses of GET /buy/status and entries of txCache / completedByPayload
NoResult == [status |-> "none", reason |-> "", total_nfts |-> 0, offers |-> 0, at |-> 0]
Result(st, why) == [NoResult EXCEPT !.status = st, !.reason = why]

IdleBReq == [pc |-> "idle", p |-> 0, txid |-> 0, buyer |-> "", i |-> 0,
             resp |-> NoResult]

\* the guard of line 678 never taken
TxCached_Never(t) == FALSE

\* lines 678-680
TxCached(t) == txCache[t].status # "none"
JobInflight_Never(t) == FALSE
JobInflight(t) == inflight[t]
\* the guard of line 680 never taken
Processed_Never(t) == FALSE

Processed(t) == t \in processedTx

FreeBSlot(b) ==
  /\ breq[b].pc \in {"idle", "done"}
  /\ \A b2 \in BReqs : b2 < b => breq[b2].pc \notin {"idle", "done"}

Answer(q, r) == [q EXCEPT !.pc = "done", !.resp = r]

\* txCache.set as patched at line 1088: stamps __cachedAt
txCacheSet(t, r) == [txCache EXCEPT ![t] = [r EXCEPT !.at = now]]

\* GET /buy/status arrives: lines 639-659, up to `await xumm.payload.get`
BuyStatus(b, p) ==
  LET q == [IdleBReq EXCEPT !.p = p]
      order == ordersByPaymentPayload[p]
      done == completedByPayload[p]
  IN  /\ FreeBSlot(b)
      /\ buyPolls < MaxBuyPolls
      /\ buyPolls' = buyPolls + 1
      /\ breq' = [breq EXCEPT ![b] =
           IF done.status # "none" THEN Answer(q, [done EXCEPT !.at = 0])
           ELSE IF order.status \in {"none", "swept"}
                THEN Answer(q, Result("completed_or_expired", ""))
           ELSE IF order.status = "completed" THEN Answer(q, Result("completed_or_expired", ""))
           ELSE [q EXCEPT !.pc = "xget"]]
      /\ UNCHANGED <<swapVars, lockerVars, clientVars, now, ordersByPaymentPayload, createVars, completedByPayload,
                     txCache, inflight, processedTx, xummPayload, orderLedger,
                     minted, mintRuns, txHistory>>

\* xumm.payload.get returns: lines 660-890, up to `await client.connect()`
\* of a new job.  `order` is the object read at line 647.
BuyPayload(b) ==
  LET q == breq[b]
      p == q.p
      payload == xummPayload[p]
      order == ordersByPaymentPayload[p]
      pinned == IF order.buyer = "" THEN payload.account ELSE order.buyer
      t == payload.txid
  IN  /\ q.pc = "xget"
      /\ IF ~payload.signed
         THEN /\ breq' = [breq EXCEPT ![b] = Answer(q, Result("pending", ""))]
              /\ UNCHANGED <<ordersByPaymentPayload, inflight>>
         ELSE /\ ordersByPaymentPayload' = [ordersByPaymentPayload EXCEPT
                    ![p].buyer = pinned,
                    ![p].txid = IF order.txid = 0 THEN t ELSE order.txid]
              /\ IF payload.account # pinned
                 THEN /\ breq' = [breq EXCEPT ![b] =
                            Answer(q, Result("error", "Buyer mismatch for this order"))]
                      /\ UNCHANGED inflight
                 ELSE IF TxCached(t)
                 THEN /\ breq' = [breq EXCEPT ![b] = Answer(q, txCache[t])]
                      /\ UNCHANGED inflight
                 ELSE IF JobInflight(t) \/ Processed(t)
                 THEN /\ breq' = [breq EXCEPT ![b] = Answer(q, Result("pending", ""))]
                      /\ UNCHANGED inflight
                 ELSE /\ breq' = [breq EXCEPT ![b] =
                            [q EXCEPT !.pc = "connect", !.txid = t,
                                      !.buyer = payload.account]]
                      /\ inflight' = [inflight EXCEPT ![t] = TRUE]
      /\ UNCHANGED <<swapVars, lockerVars, clientVars, now, createVars, completedByPayload, txCache, processedTx,
                     xummPayload, orderLedger, minted, mintRuns, txHistory, buyPolls>>

\* client.connect() returns, or throws: the job rejects, line 891 throws and
\* the handler answers 500 from its catch
BuyConnect(b, ok) ==
  /\ breq[b].pc = "connect"
  /\ breq' = [breq EXCEPT ![b] =
        IF ok THEN [breq[b] EXCEPT !.pc = "verify"]
        ELSE Answer(breq[b], Result("error500", "connect"))]
  /\ UNCHANGED <<swapVars, lockerVars, clientVars, now, ordersByPaymentPayload, createVars, completedByPayload,
                 txCache, inflight, processedTx, xummPayload, orderLedger,
                 minted, mintRuns, txHistory, buyPolls>>

\* the `tx` query of verifyPaymentTx returns (found) or throws: lines
\* 686-700, up to `await client.disconnect()` of a failed verification
BuyVerify(b, found) ==
  LET q == breq[b]
      t == q.txid
      order == ordersByPaymentPayload[q.p]
      v == verifyPaymentTx(~found, orderLedger[t], order.buyer, order.total,
                           order.paymentMethod)
  IN  /\ q.pc = "verify"
      /\ txHistory' = [txHistory EXCEPT ![t].verdicts = @ \cup {v}]
      /\ IF v = "ok"
         THEN /\ processedTx' = processedTx \cup {t}
              /\ mintRuns' = [mintRuns EXCEPT ![t] = @ + 1]
              /\ breq' = [breq EXCEPT ![b] = [q EXCEPT !.pc = "mint", !.i = 0]]
         ELSE /\ breq' = [breq EXCEPT ![b] =
                    [q EXCEPT !.pc = "disconnect",
                              !.resp = IF v = "not_validated_yet"
                                       THEN Result("pending", "")
                                       ELSE Result("error", v)]]
              /\ UNCHANGED <<processedTx, mintRuns>>
      /\ UNCHANGED <<swapVars, lockerVars, clientVars, now, ordersByPaymentPayload, createVars, completedByPayload,
                     txCache, inflight, xummPayload, orderLedger, minted, buyPolls>>

\* BuyDisconnect without the test of lines 894-897: a pending job result
\* is cached like a terminal one
BuyDisconnect_CachesPending(b, ok) ==
  LET q == breq[b]
      t == q.txid
  IN  /\ q.pc = "disconnect"
      /\ IF ~ok
         THEN /\ breq' = [breq EXCEPT ![b] = Answer(q, Result("error500", "disconnect"))]
              /\ UNCHANGED <<txCache, inflight, txHistory>>
         ELSE /\ txCache' = txCacheSet(t, q.resp)
              /\ txHistory' = [txHistory EXCEPT ![t].cached = TRUE]
              /\ inflight' = [inflight EXCEPT ![t] = FALSE]
              /\ breq' = [breq EXCEPT ![b] = Answer(q, q.resp)]
      /\ UNCHANGED <<swapVars, lockerVars, clientVars, now, ordersByPaymentPayload, createVars, completedByPayload,
                     processedTx, xummPayload, orderLedger, minted, mintRuns, buyPolls>>

\* client.disconnect() of line 695 returns and the job returns its result,
\* lines 696-697 and 891-915; or it throws, the job rejects and the handler
\* answers 500 from its catch
BuyDisconnect(b, ok) ==
  LET q == breq[b]
      t == q.txid
  IN  /\ q.pc = "disconnect"
      /\ IF ~ok
         THEN /\ breq' = [breq EXCEPT ![b] = Answer(q, Result("error500", "disconnect"))]
              /\ UNCHANGED <<txCache, inflight, txHistory>>
         ELSE IF q.resp.status = "pending"
         THEN /\ inflight' = [inflight EXCEPT ![t] = FALSE]
              /\ breq' = [breq EXCEPT ![b] = Answer(q, q.resp)]
              /\ UNCHANGED <<txCache, txHistory>>
         ELSE /\ txCache' = txCacheSet(t, q.resp)
              /\ txHistory' = [txHistory EXCEPT ![t].cached = TRUE]
              /\ inflight' = [inflight EXCEPT ![t] = FALSE]
              /\ breq' = [breq EXCEPT ![b] = Answer(q, q.resp)]
      /\ UNCHANGED <<swapVars, lockerVars, clientVars, now, ordersByPaymentPayload, createVars, completedByPayload,
                     processedTx, xummPayload, orderLedger, minted, mintRuns, buyPolls>>

\* one pass of the mint loop, lines 761-876: mint, offer, accept payload;
\* an exception ends the pass ("mint_fail": nothing minted, "offer_fail":
\* minted and pushed to mintedNFTs, no accept QR)
BuyMintUnit(b, o) ==
  LET q == breq[b]
      t == q.txid
  IN  /\ q.pc = "mint"
      /\ q.i < ordersByPaymentPayload[q.p].units
      /\ minted' = [minted EXCEPT ![t] = @ + (IF o = "mint_fail" THEN 0 ELSE 1)]
      /\ breq' = [breq EXCEPT ![b] =
            [q EXCEPT !.i = @ + 1,
                      !.resp.total_nfts = @ + (IF o = "mint_fail" THEN 0 ELSE 1),
                      !.resp.offers = @ + (IF o = "ok" THEN 1 ELSE 0)]]
      /\ UNCHANGED <<swapVars, lockerVars, clientVars, now, ordersByPaymentPayload, createVars, completedByPayload,
                     txCache, inflight, processedTx, xummPayload, orderLedger,
                     mintRuns, txHistory, buyPolls>>

\* the loop is over and client.disconnect() of line 879 returns: lines
\* 881-915; or it throws, the job rejects and the handler answers 500
BuySettle(b, ok) ==
  LET q == breq[b]
      t == q.txid
      r == [q.resp EXCEPT !.status = "success"]
  IN  /\ q.pc = "mint"
      /\ q.i = ordersByPaymentPayload[q.p].units
      /\ IF ok
         THEN /\ txCache' = txCacheSet(t, r)
              /\ txHistory' = [txHistory EXCEPT ![t].cached = TRUE]
              /\ inflight' = [inflight EXCEPT ![t] = FALSE]
              /\ ordersByPaymentPayload' = [ordersByPaymentPayload EXCEPT
                    ![q.p].status = "completed", ![q.p].completedAt = now]
              /\ completedByPayload' = [completedByPayload EXCEPT ![q.p] = [r EXCEPT !.at = now]]
              /\ breq' = [breq EXCEPT ![b] = Answer(q, r)]
         ELSE /\ breq' = [breq EXCEPT ![b] = Answer(q, Result("error500", "disconnect"))]
              /\ UNCHANGED <<txCache, txHistory, inflight, ordersByPaymentPayload,
                             completedByPayload>>
      /\ UNCHANGED <<swapVars, lockerVars, clientVars, now, createVars, processedTx, xummPayload, orderLedger,
                     minted, mintRuns, buyPolls>>

\* the buyer (or someone else) signs the payload in the wallet; or the
\* payload is closed unsigned: kind "cancelled" (declined in the wallet) or
\* "expired"
XummSignOrder(p, acct, kind) ==
  /\ ordersByPaymentPayload[p].status = "created"
  /\ ~xummPayload[p].signed
  /\ xummPayload[p].closed = ""
  /\ xummPayload' = [xummPayload EXCEPT ![p] =
                        IF kind \in {"cancelled", "expired"}
                        THEN [Unsigned EXCEPT !.closed = kind] ELSE
                           [signed |-> TRUE, account |-> acct, txid |-> p, closed |-> ""]]
  /\ orderLedger' = [orderLedger EXCEPT ![p] =
                        IF kind \in {"cancelled", "expired"} THEN orderLedger[p]
                        ELSE OrderTx(acct, ordersByPaymentPayload[p], kind)]
  /\ UNCHANGED <<swapVars, lockerVars, clientVars, now, ordersByPaymentPayload, createVars, completedByPayload,
                 txCache, inflight, processedTx, breq, minted, mintRuns, txHistory, buyPolls>>

\* the ledger validates the transaction
OrderLedgerValidate(t) ==
  /\ orderLedger[t].TransactionType # ""
  /\ orderLedger[t].validated = "false"
  /\ orderLedger' = [orderLedger EXCEPT ![t].validated = "true"]
  /\ UNCHANGED <<swapVars, lockerVars, clientVars, now, ordersByPaymentPayload, createVars, completedByPayload,
                 txCache, inflight, processedTx, xummPayload, breq, minted,
                 mintRuns, txHistory, buyPolls>>

\* TTL sweep (setInterval callback, lines 1040-1084): one pass over
\* completedByPayload, ordersByPaymentPayload, createOrderCache and txCache.
\* A deleted order keeps its fields under status "swept": it is out of the
\* map, and a handler that read it before still holds the object.
\* the sweeper without the age tests
Expired_Always(at, ttl) == at # 0

Expired(at, ttl) == at # 0 /\ now - at > ttl

Sweep ==
  /\ completedByPayload' = [p \in PUuids |->
        IF completedByPayload[p].status # "none"
           /\ Expired(completedByPayload[p].at, ORDER_TTL_MS)
        THEN NoResult ELSE completedByPayload[p]]
  /\ ordersByPaymentPayload' = [p \in PUuids |->
        IF ordersByPaymentPayload[p].status = "completed"
           /\ Expired(ordersByPaymentPayload[p].completedAt, ORDER_TTL_MS)
        THEN [ordersByPaymentPayload[p] EXCEPT !.status = "swept"]
        ELSE ordersByPaymentPayload[p]]
  /\ createOrderCache' = [k \in Keys |->
        IF createOrderCache[k] # NoEntry
           /\ Expired(createOrderCache[k].createdAt, CREATE_ORDER_CACHE_MS)
        THEN NoEntry ELSE createOrderCache[k]]
  /\ txCache' = [t \in Txids |->
        IF txCache[t].status # "none" /\ Expired(txCache[t].at, TX_CACHE_TTL)
        THEN NoResult ELSE txCache[t]]
  /\ <<completedByPayload', ordersByPaymentPayload', createOrderCache', txCache'>>
       # <<completedByPayload, ordersByPaymentPayload, createOrderCache, txCache>>
  /\ UNCHANGED <<swapVars, lockerVars, clientVars, now, createOrderInflight, creq, calls, payloads, lastPayloadAt,
                 creates, inflight, processedTx, xummPayload, orderLedger, breq,
                 minted, mintRuns, txHistory, buyPolls>>

\* a long time passes: longer than ORDER_TTL_MS, or than TX_CACHE_TTL
BuyTick(d) ==
  /\ d \in {ORDER_TTL_MS + 1, TX_CACHE_TTL + 1}
  /\ now + d <= 1 + MaxJumps * (TX_CACHE_TTL + 1)
  /\ now' = now + d
  /\ UNCHANGED <<swapVars, lockerVars, clientVars, ordersByPaymentPayload, createVars, buyVars>>

(***************************************************************************)
(* Smart-Locker: POST /api/redeem, GET /api/redeem/status                  *)
(***************************************************************************)
LReqs == 1..NLReq
BurnUuids == 1..NBurn

\* redeems.get(burnUuid) || { unlocked: false, account: null, nftokenId: null };
\* nftokenId 0 = null.  The NFT of burn payload u is NFToken u.
NoRedeem == [has |-> FALSE, account |-> "", nftokenId |-> 0, unlocked |-> FALSE]

NoBurnPayload == [signed |-> FALSE, txid |-> FALSE, cancelled |-> FALSE]

IdleLReq == [pc |-> "idle", u |-> 0, signed |-> FALSE, txid |-> FALSE,
             r |-> NoRedeem, burnedOnChain |-> FALSE, chainError |-> FALSE,
             unlockResult |-> FALSE]

FreeLSlot(l) ==
  /\ lreq[l].pc \in {"idle", "done"}
  /\ \A l2 \in LReqs : l2 < l => lreq[l2].pc \notin {"idle", "done"}

\* line 556
ShouldOpen(signed, txid, burnedOnChain, r) ==
  ((signed /\ txid) \/ burnedOnChain) /\ ~r.unlocked

\* lines 555-578: the unlock decision, with the `r` read at line 525
Decide(l, q) ==
  IF ShouldOpen(q.signed, q.txid, q.burnedOnChain, q.r)
  THEN /\ opens' = [opens EXCEPT ![q.u] = @ + 1]
       /\ redeems' = [redeems EXCEPT ![q.u] = [q.r EXCEPT !.has = TRUE, !.unlocked = TRUE]]
       /\ lreq' = [lreq EXCEPT ![l] = [q EXCEPT !.pc = "done", !.unlockResult = TRUE]]
  ELSE /\ lreq' = [lreq EXCEPT ![l] = [q EXCEPT !.pc = "done"]]
       /\ UNCHANGED <<opens, redeems>>

\* POST /api/redeem: the burn payload is created and registered
LockerRedeem(u) ==
  /\ ~redeems[u].has
  /\ burnPayload[u] = NoBurnPayload
  /\ u \in holderNfts
  /\ redeems' = [redeems EXCEPT ![u] =
        [has |-> TRUE, account |-> "rHolder", nftokenId |-> u, unlocked |-> FALSE]]
  /\ UNCHANGED <<swapVars, orderVars, clientVars, burnPayload, holderNfts, lreq, opens, lpolls>>

\* GET /api/redeem/status arrives: lines 509-513
LockerStatus(l, u) ==
  /\ FreeLSlot(l)
  /\ lpolls < MaxLPolls
  /\ lpolls' = lpolls + 1
  /\ lreq' = [lreq EXCEPT ![l] = [IdleLReq EXCEPT !.pc = "xget", !.u = u]]
  /\ UNCHANGED <<swapVars, orderVars, clientVars, redeems, burnPayload, holderNfts, opens>>

\* xumm.payload.get returns: lines 515-534; without a chain read the
\* handler goes on to lines 555-578
LockerPayload(l) ==
  LET p == burnPayload[lreq[l].u]
      r == redeems[lreq[l].u]
      q == [lreq[l] EXCEPT !.signed = p.signed, !.txid = p.txid,
                           !.r = [r EXCEPT !.has = FALSE]]
  IN  /\ lreq[l].pc = "xget"
      /\ IF p.signed /\ r.account # "" /\ r.nftokenId # 0
         THEN /\ lreq' = [lreq EXCEPT ![l] = [q EXCEPT !.pc = "chain"]]
              /\ UNCHANGED <<opens, redeems>>
         ELSE Decide(l, q)
      /\ UNCHANGED <<swapVars, orderVars, clientVars, burnPayload, holderNfts, lpolls>>

\* account_nfts returns, or connect / request throws: lines 535-578
LockerChain(l, ok) ==
  LET q == lreq[l]
      stillHas == q.r.nftokenId \in holderNfts
  IN  /\ q.pc = "chain"
      /\ Decide(l, [q EXCEPT !.burnedOnChain = ok /\ ~stillHas, !.chainError = ~ok])
      /\ UNCHANGED <<swapVars, orderVars, clientVars, burnPayload, holderNfts, lpolls>>

\* the holder signs the burn payload (a payload that is only signed, not
\* submitted, has no txid), or rejects it
WalletSign(u, withTxid) ==
  /\ burnPayload[u] = NoBurnPayload
  /\ burnPayload' = [burnPayload EXCEPT ![u] =
        [signed |-> TRUE, txid |-> withTxid, cancelled |-> FALSE]]
  /\ UNCHANGED <<swapVars, orderVars, clientVars, redeems, holderNfts, lreq, opens, lpolls>>

WalletCancel(u) ==
  /\ burnPayload[u] = NoBurnPayload
  /\ burnPayload' = [burnPayload EXCEPT ![u].cancelled = TRUE]
  /\ UNCHANGED <<swapVars, orderVars, clientVars, redeems, holderNfts, lreq, opens, lpolls>>

\* the ledger validates the NFTokenBurn: the NFT leaves the inventory
LedgerBurn(u) ==
  /\ burnPayload[u].signed /\ burnPayload[u].txid
  /\ redeems[u].nftokenId = u
  /\ u \in holderNfts
  /\ holderNfts' = holderNfts \ {u}
  /\ UNCHANGED <<swapVars, orderVars, clientVars, redeems, burnPayload, lreq, opens, lpolls>>

\* no polling loop has been started
NoLoop == [name |-> "", pc |-> "off", i |-> 0, payload |-> "open", result |-> ""]

LockerInit ==
  /\ redeems = [u \in BurnUuids |-> NoRedeem]
  /\ burnPayload = [u \in BurnUuids |-> NoBurnPayload]
  /\ holderNfts = BurnUuids
  /\ lreq = [l \in LReqs |-> IdleLReq]
  /\ opens = [u \in BurnUuids |-> 0]
  /\ lpolls = 0
  /\ loop = NoLoop

LockerNext ==
  \/ \E u \in BurnUuids : LockerRedeem(u)
  \/ \E l \in LReqs, u \in BurnUuids : LockerStatus(l, u)
  \/ \E l \in LReqs : LockerPayload(l)
  \/ \E l \in LReqs, ok \in BOOLEAN : LockerChain(l, ok)
  \/ \E u \in BurnUuids, withTxid \in BOOLEAN : WalletSign(u, withTxid)
  \/ \E u \in BurnUuids : WalletCancel(u)
  \/ \E u \in BurnUuids : LedgerBurn(u)

(***************************************************************************)
(* Initial states and specifications                                       *)
(***************************************************************************)
CreateInit ==
  /\ createOrderCache = [k \in Keys |-> NoEntry]
  /\ createOrderInflight = [k \in Keys |-> 0]
  /\ creq = [c \in CReqs |-> IdleCReq]
  /\ calls = [k \in Keys |-> 0]
  /\ payloads = [k \in Keys |-> 0]
  /\ lastPayloadAt = [k \in Keys |-> 0]
  /\ creates = 0

BuyInit ==
  /\ completedByPayload = [p \in PUuids |-> NoResult]
  /\ txCache = [t \in Txids |-> NoResult]
  /\ inflight = [t \in Txids |-> FALSE]
  /\ processedTx = {}
  /\ xummPayload = [p \in PUuids |-> Unsigned]
  /\ orderLedger = [t \in Txids |-> NoTx]
  /\ breq = [b \in BReqs |-> IdleBReq]
  /\ minted = [t \in Txids |-> 0]
  /\ mintRuns = [t \in Txids |-> 0]
  /\ txHistory = [t \in Txids |-> [verdicts |-> {}, cached |-> FALSE]]
  /\ buyPolls = 0

\* the server has just started: no order yet
OrderInit ==
  /\ now = 1
  /\ ordersByPaymentPayload = [p \in PUuids |-> NoOrder]
  /\ CreateInit
  /\ BuyInit

\* orders that /create-order has registered (Plan A: buyer may be empty)
BuyOrders ==
  { [NewOrder([payment_method |-> "mpt", buyer |-> b,
               items |-> <<[product_id |-> 2, qty |-> n]>>], 1)
       EXCEPT !.orderKey = <<>>] : b \in {"", "rBuyer"}, n \in 1..2 }

\* one order has been created and its creation cache has been swept
PaidOrderInit ==
  /\ now = 1
  /\ \E o \in BuyOrders :
       ordersByPaymentPayload = [p \in PUuids |-> IF p = 1 THEN o ELSE NoOrder]
  /\ CreateInit
  /\ BuyInit

SwapInit ==
  /\ kv = [u \in Uuids |-> [s \in Steps |-> 0]]
  /\ policy \in Policies
  /\ issuance \in Issuances
  /\ ledgerTx = [u \in Uuids |-> TxUnsigned]
  /\ submitted = [u \in Uuids \cup {0} |-> [s \in Steps |-> 0]]
  /\ applied = [u \in Uuids \cup {0} |-> [s \in Steps |-> 0]]
  /\ req = [r \in Reqs |-> IdleReq]
  /\ polls = 0
  /\ crashed = 0
  /\ overlapped = FALSE
  /\ audit = NoAudit

SwapNext ==
  \/ \E r \in Reqs, u \in Uuids : SwapPoll(r, u)
  \/ \E r \in Reqs, o \in SubmitResults : SwapResume(r, o)
  \/ \E A \in SUBSET Reqs : SwapCrash(A)
  \/ \E u \in Uuids, tx \in TxKinds : XummSign(u, tx)
  \/ \E u \in Uuids : LedgerValidate(u)

CreateNext ==
  \/ \E c \in CReqs, in \in OrderInputs : CreateOrder(c, in)
  \/ \E c \in CReqs, res \in {"exists", "missing", "throw"} : TrustReturn(c, res)
  \/ \E c \in CReqs, res \in {"payload", "empty", "throw"} : CreateReturn(c, res)
  \/ Sweep
  \/ CreateTick

BuyNext ==
  \/ \E b \in BReqs, p \in PUuids : BuyStatus(b, p)
  \/ \E b \in BReqs : BuyPayload(b)
  \/ \E b \in BReqs, ok \in BOOLEAN : BuyConnect(b, ok)
  \/ \E b \in BReqs, found \in BOOLEAN : BuyVerify(b, found)
  \/ \E b \in BReqs, o \in {"ok", "mint_fail", "offer_fail"} : BuyMintUnit(b, o)
  \/ \E b \in BReqs, ok \in BOOLEAN : BuyDisconnect(b, ok)
  \/ \E b \in BReqs, ok \in BOOLEAN : BuySettle(b, ok)
  \/ \E p \in PUuids, acct \in {"rBuyer", "rMallory"}, kind \in OrderTxKinds :
        XummSignOrder(p, acct, kind)
  \/ \E t \in Txids : OrderLedgerValidate(t)
  \/ Sweep
  \/ \E d \in {ORDER_TTL_MS + 1, TX_CACHE_TTL + 1} : BuyTick(d)

\* the issuer server with an empty database
SwapFresh ==
  /\ SwapInit
  /\ policy = NoPolicy
  /\ issuance = [idSet |-> FALSE, nodeFound |-> FALSE, requireAuth |-> FALSE,
                 canClawback |-> FALSE, canLock |-> FALSE]

\* ---- verification of one signed payload, over the transactions the
\* ledger can answer with ----
\* tx.Amount values: drops strings, RLUSD / other IOUs, MPT amounts, none
VerifyAmounts ==
  {DropsAmount("1000000"), DropsAmount("2000000"),
   IouAmount("RLUSD", RLUSD_ISSUER, "1"), IouAmount("rlusd", RLUSD_ISSUER, "1"),
   IouAmount("USD", RLUSD_ISSUER, "1"), IouAmount("RLUSD", "rOtherIssuer", "1"),
   IouAmount("RLUSD", RLUSD_ISSUER, "2"), IouAmount("RLUSD", RLUSD_ISSUER, "1.0"),
   MptAmount("KFDISSUANCE", "1"), MptAmount("kfdissuance", "1"),
   MptAmount("OTHERISSUANCE", "1"), MptAmount("KFDISSUANCE", "2"),
   NoAmount}

\* results of the `tx` command for the txid of the payload
VerifyTxs ==
  LET whole == [validated : {"true", "false"},
                TransactionType : {"Payment", "OfferCreate"},
                Account : {"rBuyer", "rMallory"},
                Destination : {STORE_ADDRESS, "rOther"},
                result : {"", "tesSUCCESS", "tecPATH_PARTIAL"},
                Amount : VerifyAmounts,
                partial : {FALSE}]
  IN  whole \cup {TxNotFound}
        \cup {[tx EXCEPT !.partial = TRUE] :
                tx \in {w \in whole : /\ w.TransactionType = "Payment"
                                      /\ w.result = "tesSUCCESS"
                                      /\ w.Amount.type = "object"}}

\* orders that /create-order has registered for one unit (total 1)
VerifyOrders ==
  { [NewOrder([payment_method |-> m, buyer |-> b,
               items |-> <<[product_id |-> 1, qty |-> 1]>>], 1)
       EXCEPT !.orderKey = <<>>] :
      m \in {"xrp", "rlusd", "mpt"}, b \in {"", "rBuyer"} }

\* order 1 exists and its payload has been signed; the ledger answers the
\* `tx` query for its txid with any of VerifyTxs
InitVerify ==
  /\ SwapFresh
  /\ LockerInit
  /\ CreateInit
  /\ now = 1
  /\ \E o \in VerifyOrders :
       ordersByPaymentPayload = [p \in PUuids |-> IF p = 1 THEN o ELSE NoOrder]
  /\ \E acct \in {"rBuyer", "rMallory"} :
       xummPayload = [p \in PUuids |->
          IF p = 1 THEN [signed |-> TRUE, account |-> acct, txid |-> 1, closed |-> ""] ELSE Unsigned]
  /\ \E tx \in VerifyTxs :
       orderLedger = [t \in Txids |-> IF t = 1 THEN tx ELSE NoTx]
  /\ completedByPayload = [p \in PUuids |-> NoResult]
  /\ txCache = [t \in Txids |-> NoResult]
  /\ inflight = [t \in Txids |-> FALSE]
  /\ processedTx = {}
  /\ breq = [b \in BReqs |-> IdleBReq]
  /\ minted = [t \in Txids |-> 0]
  /\ mintRuns = [t \in Txids |-> 0]
  /\ txHistory = [t \in Txids |-> [verdicts |-> {}, cached |-> FALSE]]
  /\ buyPolls = 0

VerifyNext ==
  \/ \E b \in BReqs : BuyStatus(b, 1)
  \/ \E b \in BReqs : BuyPayload(b)
  \/ \E b \in BReqs : BuyConnect(b, TRUE)
  \/ \E b \in BReqs, found \in BOOLEAN : BuyVerify(b, found)
  \/ \E b \in BReqs : BuyDisconnect(b, TRUE)
  \/ \E b \in BReqs : BuyMintUnit(b, "ok")
  \/ \E b \in BReqs : BuySettle(b, TRUE)

\* ---- polls of one validated payment, with the operator changing the
\* policy flags and the blacklist between them ----
InitPolicy ==
  /\ OrderInit
  /\ LockerInit
  /\ kv = [u \in Uuids |-> [s \in Steps |-> 0]]
  /\ policy \in Policies
  /\ issuance = [idSet |-> TRUE, nodeFound |-> TRUE, requireAuth |-> FALSE,
                 canClawback |-> TRUE, canLock |-> TRUE]
  /\ ledgerTx = [u \in Uuids |-> [TxGood EXCEPT !.validated = TRUE]]
  /\ submitted = [u \in Uuids \cup {0} |-> [s \in Steps |-> 0]]
  /\ applied = [u \in Uuids \cup {0} |-> [s \in Steps |-> 0]]
  /\ req = [r \in Reqs |-> IdleReq]
  /\ polls = 0
  /\ crashed = 0
  /\ overlapped = FALSE
  /\ audit = NoAudit

\* the polls come one after another, and the operator's requests come
\* between them
PolicyNext ==
  \/ \E r \in Reqs, u \in Uuids :
        (\A r2 \in Reqs : req[r2].pc # "wait") /\ SwapPoll(r, u)
  \/ \E r \in Reqs, o \in SubmitResults : SwapResume(r, o)
  \/ \E body \in PolicyBodies :
        (\A r2 \in Reqs : req[r2].pc # "wait") /\ PostPolicy(body)
  \/ \E listed \in BOOLEAN :
        (\A r2 \in Reqs : req[r2].pc # "wait") /\ PostBlacklist(listed)

\* ---- the quantity computed for one validated payment, over the amounts
\* the ledger can report ----
CalcTxs ==
  LET CalcPaid ==
        {XrpPaid(1000000), XrpPaid(1400000), XrpPaid(400000), XrpPaid(0),
         IouPaid("RLUSD", 100), IouPaid("RLUSD", 29), IouPaid("RLUSD", 115),
         IouPaid("rlusd", 140), IouPaid("USD", 100), IouPaid("RLUSD", 0), NoPaid}
  IN  { [TxGood EXCEPT !.validated = TRUE, !.delivered = d, !.amount = a] :
          d \in CalcPaid, a \in {XrpPaid(1000000), IouPaid("RLUSD", 250), NoPaid} }

InitCalc ==
  /\ OrderInit
  /\ LockerInit
  /\ kv = [u \in Uuids |-> [s \in Steps |-> 0]]
  /\ policy = NoPolicy
  /\ issuance = [idSet |-> TRUE, nodeFound |-> TRUE, requireAuth |-> FALSE,
                 canClawback |-> TRUE, canLock |-> TRUE]
  /\ ledgerTx \in [Uuids -> CalcTxs]
  /\ submitted = [u \in Uuids \cup {0} |-> [s \in Steps |-> 0]]
  /\ applied = [u \in Uuids \cup {0} |-> [s \in Steps |-> 0]]
  /\ req = [r \in Reqs |-> IdleReq]
  /\ polls = 0
  /\ crashed = 0
  /\ overlapped = FALSE
  /\ audit = NoAudit

CalcNext ==
  \/ \E r \in Reqs, u \in Uuids : SwapPoll(r, u)
  \/ \E r \in Reqs, o \in SubmitResults : SwapResume(r, o)

InitSwap == SwapInit /\ OrderInit /\ LockerInit
InitCreate == SwapFresh /\ OrderInit /\ LockerInit
InitBuy == SwapFresh /\ PaidOrderInit /\ LockerInit
InitLocker == SwapFresh /\ OrderInit /\ LockerInit

SpecSwap == InitSwap /\ [][SwapNext]_vars

SpecCreate == InitCreate /\ [][CreateNext]_vars

SpecBuy == InitBuy /\ [][BuyNext]_vars

SpecLocker == InitLocker /\ [][LockerNext]_vars

SpecVerify == InitVerify /\ [][VerifyNext]_vars
SpecPolicy == InitPolicy /\ [][PolicyNext]_vars
SpecCalc == InitCalc /\ [][CalcNext]_vars

\* A buyer orders with MPT, pays, the page polls /buy/status, and the buyer
\* orders again: POST /create-order and GET /buy/status on one server, one
\* request at a time.
SpecReorder ==
  /\ InitCreate
  /\ [][\/ \E in \in {i \in OrderInputs : i.payment_method = "mpt"} : CreateOrder(1, in)
        \/ \E res \in {"payload", "empty", "throw"} : CreateReturn(1, res)
        \/ CreateTick
        \/ \E p \in PUuids : BuyStatus(1, p)
        \/ BuyPayload(1)
        \/ \E ok \in BOOLEAN : BuyConnect(1, ok)
        \/ \E found \in BOOLEAN : BuyVerify(1, found)
        \/ \E o \in {"ok", "mint_fail", "offer_fail"} : BuyMintUnit(1, o)
        \/ \E ok \in BOOLEAN : BuyDisconnect(1, ok)
        \/ \E ok \in BOOLEAN : BuySettle(1, ok)
        \/ \E p \in PUuids, kind \in OrderTxKinds : XummSignOrder(p, "rBuyer", kind)
        \/ \E t \in Txids : OrderLedgerValidate(t)]_vars

(***************************************************************************)
(* The confirmation polling loops: waitTxValidated of the MPT issuer, *)
(* pollPayload of its page, pollBuyStatus of the order page, and            *)
(* pollBurnStatus and startLogin of the locker page.  One loop runs; the    *)
(* payload it waits for is open until the wallet signs or rejects it or the *)
(* provider lets it expire.                                                  *)
(***************************************************************************)
tries == 20
max == 200
MAX_POLL_MS == 180000
POLL_INTERVAL_MS == 2500

\* the wallet signs or rejects the payload, or the payload expires
PayloadResolve(how) ==
  /\ loop.pc \in {"run", "sleep"}
  /\ loop.payload = "open"
  /\ loop' = [loop EXCEPT !.payload = how]
  /\ UNCHANGED <<swapVars, orderVars, lockerVars>>

\* One step of the loop: the request of a round and what follows it, or the
\* end of the pause between two rounds (await sleep, the setInterval
\* timer).  `ans` is what the request brings: "done" (validated / resolved
\* / a final status), "wait" (not yet), or "throw" (the request fails).
\* The locker's endpoints report signed and cancelled from the payload; an
\* expired payload is neither.
LoopPoll(ans) ==
  LET stop(res) == [loop EXCEPT !.pc = "stopped", !.result = res]
      again == [loop EXCEPT !.i = @ + 1, !.pc = "sleep"]
      pause == [loop EXCEPT !.pc = "sleep"]
  IN  /\ loop.pc \in {"run", "sleep"}
      /\ loop' =
           IF loop.pc = "sleep" THEN [loop EXCEPT !.pc = "run"] ELSE
           CASE loop.name = "waitTxValidated" ->
                  IF ~(loop.i < tries) THEN stop("null")
                  ELSE IF ans = "done" THEN stop("validated")
                  ELSE again
             [] loop.name = "pollPayload" ->
                  IF ~(loop.i < max) THEN stop("null")
                  ELSE IF ans = "throw" THEN stop("threw")
                  ELSE IF ans = "done" THEN stop("payload")
                  ELSE again
             [] loop.name = "pollBuyStatus" ->
                  IF (loop.i + 1) * POLL_INTERVAL_MS > MAX_POLL_MS THEN stop("pollTimeout")
                  ELSE IF ans = "done" THEN stop("status")
                  ELSE again
             [] loop.name = "pollBurnStatus" ->
                  IF ans = "throw" THEN pause
                  ELSE IF loop.payload = "signed" THEN stop("opened")
                  ELSE IF loop.payload = "cancelled" THEN stop("cancelled")
                  ELSE pause
             [] loop.name = "startLogin" ->
                  IF ans = "throw" THEN pause
                  ELSE IF loop.payload = "signed" THEN stop("signedIn")
                  ELSE IF loop.payload = "cancelled" THEN stop("cancelled")
                  ELSE pause
      /\ UNCHANGED <<swapVars, orderVars, lockerVars>>

InitLoops ==
  /\ SwapFresh /\ OrderInit
  /\ redeems = [u \in BurnUuids |-> NoRedeem]
  /\ burnPayload = [u \in BurnUuids |-> NoBurnPayload]
  /\ holderNfts = BurnUuids
  /\ lreq = [l \in LReqs |-> IdleLReq]
  /\ opens = [u \in BurnUuids |-> 0]
  /\ lpolls = 0
  /\ loop \in {[NoLoop EXCEPT !.name = n, !.pc = "run"] :
                 n \in {"waitTxValidated", "pollPayload", "pollBuyStatus",
                        "pollBurnStatus", "startLogin"}}

\* every loop keeps running (await sleep / setInterval), its requests do
\* not fail for ever, and the payload does not stay open for ever: it is
\* signed, rejected, or it expires
SpecLoops ==
  /\ InitLoops
  /\ [][\/ \E ans \in {"done", "wait", "throw"} : LoopPoll(ans)
        \/ \E how \in {"signed", "cancelled", "expired"} : PayloadResolve(how)]_vars
  /\ WF_vars(\E ans \in {"done", "wait", "throw"} : LoopPoll(ans))
  /\ SF_vars(loop.pc = "run" /\ \E ans \in {"done", "wait"} : LoopPoll(ans))
  /\ WF_vars(\E how \in {"signed", "cancelled", "expired"} : PayloadResolve(how))

\* ---- one validated payment on an issuance with any capabilities, polled
\* again and again, and the operator's manual endpoints ----
InitCapability ==
  /\ OrderInit
  /\ LockerInit
  /\ kv = [u \in Uuids |-> [s \in Steps |-> 0]]
  /\ policy \in Policies
  /\ issuance \in {i \in Issuances : i.idSet /\ i.nodeFound /\ ~i.requireAuth}
  /\ ledgerTx = [u \in Uuids |-> [TxGood EXCEPT !.validated = TRUE]]
  /\ submitted = [u \in Uuids \cup {0} |-> [s \in Steps |-> 0]]
  /\ applied = [u \in Uuids \cup {0} |-> [s \in Steps |-> 0]]
  /\ req = [r \in Reqs |-> IdleReq]
  /\ polls = 0
  /\ crashed = 0
  /\ overlapped = FALSE
  /\ audit = NoAudit

\* polls of payload 1 that come one after another, and the manual endpoints
SpecCapability ==
  /\ InitCapability
  /\ [][\/ \E r \in Reqs :
              (\A r2 \in Reqs : req[r2].pc # "wait") /\ SwapPoll(r, 1)
        \/ \E r \in Reqs, o \in SubmitResults : SwapResume(r, o)
        \/ \E s \in Steps, o \in SubmitResults : ManualKfd(s, o)]_vars

\* polls of payload 1 that come one after another, with the operator's
\* requests arriving at any time, also while a run awaits the ledger
SpecPolicyRace ==
  /\ InitPolicy
  /\ [][\/ \E r \in Reqs :
              (\A r2 \in Reqs : req[r2].pc # "wait") /\ SwapPoll(r, 1)
        \/ \E r \in Reqs, o \in SubmitResults : SwapResume(r, o)
        \/ \E body \in PolicyBodies : PostPolicy(body)
        \/ \E listed \in BOOLEAN : PostBlacklist(listed)]_vars

\* calls of tryInsert* with txids that repeat or are missing, as the API
\* endpoints and the saga make them
SpecAudit ==
  /\ InitLocker
  /\ [][\E tb \in {"transfers", "account_locks"},
           txid \in {<<>>} \cup {<<1, "issue", n>> : n \in 1..NAuditTx},
           source \in {"SWAP_AUTO", "API_SEND"} :
           /\ audit' = tryInsert(audit, tb, txid, source)
           /\ UNCHANGED <<kv, policy, issuance, ledgerTx, submitted, applied, req,
                          polls, crashed, overlapped, orderVars, lockerVars, clientVars>>]_vars

\* /buy/status with wallet payloads that can also be cancelled or expire
SpecCancel ==
  /\ InitBuy
  /\ [][\/ BuyNext
        \/ \E p \in PUuids, kind \in {"cancelled", "expired"} :
              XummSignOrder(p, "", kind)]_vars

\* the browser keeps polling (setInterval of pollBuyStatus, restarted by the
\* user after a timeout): polls beyond the bound are not counted
KeepPolling ==
  /\ buyPolls = MaxBuyPolls
  /\ buyPolls' = 0
  /\ UNCHANGED <<swapVars, lockerVars, clientVars, now, ordersByPaymentPayload, createVars,
                 completedByPayload, txCache, inflight, processedTx, xummPayload,
                 orderLedger, breq, minted, mintRuns, txHistory>>

\* every payload is polled again and again; every await of a handler
\* returns; the ledger validates a submitted transaction; faults of the
\* ledger client are transient: an operation that is tried again and again
\* succeeds at some time
SpecBuyLive ==
  /\ InitBuy
  /\ [][BuyNext \/ KeepPolling]_vars
  /\ \A p \in PUuids : WF_vars(\E b \in BReqs : BuyStatus(b, p))
  /\ WF_vars(KeepPolling)
  /\ WF_vars(\E b \in BReqs : BuyPayload(b))
  /\ WF_vars(\E b \in BReqs, o \in {"ok", "mint_fail", "offer_fail"} : BuyMintUnit(b, o))
  /\ \A t \in Txids : WF_vars(OrderLedgerValidate(t))
  /\ SF_vars(\E b \in BReqs : BuyConnect(b, TRUE))
  /\ SF_vars(\E b \in BReqs : BuyVerify(b, TRUE))
  /\ SF_vars(\E b \in BReqs : BuyDisconnect(b, TRUE))
  /\ SF_vars(\E b \in BReqs : BuySettle(b, TRUE))
(***************************************************************************)
(* Claims about the swap saga (SpecSwap)                                   *)
(***************************************************************************)
\* C1: the saga is single-flight per uuid: when requests for one uuid
\* overlap (and the process never crashes), no step takes effect on the
\* ledger more than once for that uuid.
C1_SingleFlight ==
  crashed = 0 => \A u \in Uuids, s \in Steps : applied[u][s] <= 1

\* C2: at-most-once per (uuid, step), crash-and-resume included: over
\* polls that never overlap, with a crash between the ledger's answer and
\* the write of the done marker, a step takes effect on the ledger once.
C2_AtMostOnce ==
  ~overlapped => \A u \in Uuids, s \in Steps : applied[u][s] <= 1

\* C9: authorize / issue mutations are submitted only for a validated
\* Payment whose result is tesSUCCESS and whose destination is the issuer.
C9_OnlyVerifiedPayment ==
  \A u \in Uuids :
    (submitted[u]["authorize"] > 0 \/ submitted[u]["issue"] > 0) =>
       /\ ledgerTx[u].validated
       /\ ledgerTx[u].type = "Payment"
       /\ ledgerTx[u].result = "tesSUCCESS"
       /\ ledgerTx[u].dest = "issuer"

(***************************************************************************)
(* Claims about POST /create-order (SpecCreate)                            *)
(***************************************************************************)
\* C4: a POST /create-order that starts less than CREATE_ORDER_CACHE_MS
\* after the result for its order key was cached answers at once with the
\* cached payload_uuid, and the provider's create is not called.
C4_CachedCreateIsIdempotent ==
  [][\A c \in CReqs, in \in OrderInputs :
       LET k == buildCreateOrderKey(in)
           e == createOrderCache[k]
       IN  (/\ creates' = creates + 1
            /\ FreeCSlot(c)
            /\ creq'[c].in = in
            /\ e.uuid # 0
            /\ now - e.createdAt < CREATE_ORDER_CACHE_MS)
           => /\ creq'[c].pc = "done"
              /\ creq'[c].resp = e.uuid
              /\ ordersByPaymentPayload[e.uuid].orderKey = k
              /\ calls' = calls
              /\ payloads' = payloads]_vars

\* a second call was answered from the cache, one tick after the first
\* result was cached, and the provider was called once for the key
C4_Witness ==
  \E c \in CReqs :
    /\ creq[c].pc = "done"
    /\ creq[c].via = "cache"
    /\ creq[c].resp > 0
    /\ calls[creq[c].key] = 1
    /\ now = createOrderCache[creq[c].key].createdAt + 1

\* C5 as stated: over any sequence of calls and sweeper passes, one order
\* key gets one wallet payload, ever.
C5_OnePayloadEver == \A k \in Keys : payloads[k] <= 1

\* C5, amended: a wallet payload is created for an order key only when no
\* payload of that key was cached less than CREATE_ORDER_CACHE_MS before;
\* so within the cache window a key gets one payload, and after it a
\* further call gets a new one.
C5_OnePayloadPerWindow ==
  [][\A k \in Keys :
       payloads'[k] # payloads[k]
         => /\ payloads'[k] = payloads[k] + 1
            /\ \/ lastPayloadAt[k] = 0
               \/ now - lastPayloadAt[k] >= CREATE_ORDER_CACHE_MS]_vars

\* a key has its second payload, created once the window of the first was over
C5_Witness ==
  \E k \in Keys :
    /\ payloads[k] = 2
    /\ createOrderCache[k].uuid = 2
    /\ ordersByPaymentPayload[1].orderKey = k
    /\ createOrderCache[k].createdAt
         >= ordersByPaymentPayload[1].createdAt + CREATE_ORDER_CACHE_MS

\* the requests on key k whose job is unsettled / that await another's job
Owners(k) == {c \in CReqs : creq[c].key = k /\ creq[c].pc \in {"trust", "create"}}
Joiners(k) == {c \in CReqs : creq[c].key = k /\ creq[c].pc = "join"}

\* C6: while a creation for an order key is unsettled, it is the only one
\* for that key and every other request with the key awaits it; the job
\* calls the provider's create at most once; when it settles, the entry is
\* removed and all its callers get the same answer: the payload_uuid, or
\* the error with nothing cached.
C6_SharedInflightCreation ==
  /\ [](\A k \in Keys :
          /\ Cardinality(Owners(k)) <= 1
          /\ createOrderInflight[k] # 0 <=> Owners(k) # {}
          /\ createOrderInflight[k] # 0 => createOrderInflight[k] \in Owners(k)
          /\ Joiners(k) # {} => Owners(k) # {})
  /\ [][\A k \in Keys :
          /\ calls'[k] # calls[k]
               => /\ calls'[k] = calls[k] + 1
                  /\ \E c \in Owners(k)' : creq[c].pc # "create" /\ creq'[c].pc = "create"
          /\ (createOrderInflight[k] # 0 /\ createOrderInflight'[k] = 0)
               => LET r == creq'[createOrderInflight[k]].resp
                  IN  /\ r # 0
                      /\ \A c \in Owners(k) \cup Joiners(k) :
                            creq'[c].pc = "done" /\ creq'[c].resp = r
                      /\ r = -1 => /\ createOrderCache'[k] = createOrderCache[k]
                                   /\ payloads'[k] = payloads[k]
                      /\ r > 0 => /\ createOrderCache'[k].uuid = r
                                  /\ payloads'[k] = payloads[k] + 1]_vars

\* an owner and a joiner of one job have both been answered with its
\* payload_uuid after one call of the provider
C6_Witness ==
  \E c1, c2 \in CReqs :
    /\ c1 # c2
    /\ creq[c1].pc = "done" /\ creq[c1].via = "job"
    /\ creq[c2].pc = "done" /\ creq[c2].via = "inflight"
    /\ creq[c1].key = creq[c2].key
    /\ creq[c1].resp > 0
    /\ creq[c2].resp = creq[c1].resp
    /\ calls[creq[c1].key] = 1
    /\ createOrderInflight[creq[c1].key] = 0

(***************************************************************************)
(* Claims about GET /buy/status (SpecBuy)                                  *)
(***************************************************************************)
\* the requests that run the verification-and-mint job of txid t
Jobs(t) == {b \in BReqs : breq[b].txid = t /\ breq[b].pc \in {"connect", "verify", "disconnect", "mint"}}

\* C3: for any txid and any interleaving of GET /buy/status requests, at
\* most one verification-and-mint job is in flight at a time, and the mint
\* loop of the txid is entered at most once.
C3_SingleFlightMint ==
  \A t \in Txids :
    /\ Cardinality(Jobs(t)) <= 1
    /\ Jobs(t) # {} => inflight[t]
    /\ mintRuns[t] <= 1
    /\ minted[t] <= ordersByPaymentPayload[t].units

\* the mint loop of a txid is under way while another request for the same
\* payload is in progress
C3_Witness ==
  \E b1, b2 \in BReqs :
    /\ b1 # b2
    /\ breq[b1].pc = "mint"
    /\ breq[b1].i >= 1
    /\ breq[b2].pc = "xget"
    /\ breq[b2].p = breq[b1].p

\* the signed transaction of payload p is a Payment from the order's pinned
\* buyer to a destination other than STORE_ADDRESS
PaidElsewhere(p) ==
  LET tx == orderLedger[xummPayload[p].txid]
  IN  /\ xummPayload[p].signed
      /\ tx.TransactionType = "Payment"
      /\ tx.Account = ordersByPaymentPayload[p].buyer
      /\ tx.Destination # STORE_ADDRESS

\* C10: for an order whose signed transaction is a Payment from the pinned
\* buyer to another destination than STORE_ADDRESS: once validated,
\* verifyPaymentTx gives destination_mismatch; every error /buy/status
\* reports and caches carries that reason; no request succeeds, no NFT is
\* minted and the order is never completed.
C10_DestinationMismatchRejected ==
  \A p \in PUuids :
    PaidElsewhere(p) =>
      LET t == xummPayload[p].txid
          tx == orderLedger[t]
          o == ordersByPaymentPayload[p]
      IN  /\ tx.validated = "true" =>
                verifyPaymentTx(FALSE, tx, o.buyer, o.total, o.paymentMethod)
                  = "destination_mismatch"
          /\ \A b \in BReqs :
               (breq[b].pc = "done" /\ breq[b].p = p) =>
                  /\ breq[b].resp.status \in {"pending", "error", "error500"}
                  /\ breq[b].resp.status = "error" =>
                       breq[b].resp.reason = "destination_mismatch"
          /\ txCache[t].status # "none" =>
               txCache[t].status = "error" /\ txCache[t].reason = "destination_mismatch"
          /\ minted[t] = 0
          /\ mintRuns[t] = 0
          /\ o.status = "created"
          /\ completedByPayload[p].status = "none"

\* such an order was polled after validation and rejected, and polled
\* again once the cached rejection had been swept
C10_Witness ==
  \E p \in PUuids, b \in BReqs :
    /\ PaidElsewhere(p)
    /\ orderLedger[xummPayload[p].txid].validated = "true"
    /\ breq[b].pc = "done"
    /\ breq[b].p = p
    /\ breq[b].resp.status = "error"
    /\ breq[b].resp.reason = "destination_mismatch"
    /\ txCache[xummPayload[p].txid].status = "error"
    /\ txCache[xummPayload[p].txid].at > TX_CACHE_TTL

(***************************************************************************)
(* Claims about the policy steps of the swap saga (SpecSwap)               *)
(***************************************************************************)
\* C14: clawback has precedence over lock.  In a run whose policy snapshot
\* has blacklisted, autoClawbackBlacklist and autoLockAfterSwap, on an
\* issuance that can claw back, once the clawback step is ok (submitted now
\* or already done) the run never awaits a lock submission, and its
\* response has clawback.ok = true and lock = {ok: true, skipped: true,
\* reason: SKIPPED_AFTER_SUCCESSFUL_CLAWBACK}.
C14_ClawbackBeforeLock ==
  \A r \in Reqs :
    LET q == req[r]
    IN  (/\ q.pol.blacklisted /\ q.pol.autoClaw /\ q.pol.autoLock
         /\ issuance.canClawback
         /\ q.act["clawback"] \in {"ok", "already"}) =>
          /\ ~(q.pc = "wait" /\ q.step = "lock")
          /\ q.act["lock"] \in {"none", "skip"}
          /\ q.pc = "done" =>
               /\ q.auto = "ok"
               /\ q.act["lock"] = "skip"
               /\ LockSkipReason(q.pol) = "SKIPPED_AFTER_SUCCESSFUL_CLAWBACK"

\* a run with all three flags answered after its clawback was validated:
\* one clawback on the ledger, no lock submitted for the payload
C14_Witness ==
  \E r \in Reqs :
    /\ req[r].pc = "done"
    /\ req[r].auto = "ok"
    /\ req[r].pol.blacklisted /\ req[r].pol.autoClaw /\ req[r].pol.autoLock
    /\ issuance.canClawback /\ issuance.canLock
    /\ req[r].act["clawback"] = "ok"
    /\ req[r].act["lock"] = "skip"
    /\ applied[req[r].uuid]["clawback"] = 1
    /\ submitted[req[r].uuid]["lock"] = 0

\* the run of request q has called the submission of step s (lines 931,
\* 988, 1049): it awaits it, or it has recorded its result
RunSubmitted(q, s) ==
  \/ q.pc = "wait" /\ q.step = s
  \/ q.act[s] \in {"ok", "fail"}

\* C15 as stated: one run submits at most one of clawback, lock, unlock
C15_OnePolicyMutationPerRun ==
  \A r \in Reqs :
    Cardinality({s \in {"clawback", "lock", "unlock"} : RunSubmitted(req[r], s)}) <= 1

\* C15, amended: one run never submits both lock and unlock, and at most
\* one of clawback, lock, unlock is submitted with success; after a
\* clawback that is ok (submitted now or already done) the run submits
\* neither lock nor unlock; a run that submits lock or unlock after
\* submitting clawback has recorded the clawback as failed.
C15_PolicyBranchExclusive ==
  \A r \in Reqs :
    LET q == req[r]
    IN  /\ ~(RunSubmitted(q, "lock") /\ RunSubmitted(q, "unlock"))
        /\ Cardinality({s \in {"clawback", "lock", "unlock"} : q.act[s] = "ok"}) <= 1
        /\ q.act["clawback"] \in {"ok", "already"} =>
             (~RunSubmitted(q, "lock") /\ ~RunSubmitted(q, "unlock"))
        /\ (RunSubmitted(q, "clawback")
              /\ (RunSubmitted(q, "lock") \/ RunSubmitted(q, "unlock"))) =>
             q.act["clawback"] = "fail"
        /\ RunSubmitted(q, "clawback") => ClawbackSelected(q.pol)
        /\ RunSubmitted(q, "lock") => q.pol.autoLock
        /\ RunSubmitted(q, "unlock") => (q.pol.autoUnlock /\ ~q.pol.autoLock)

\* a run whose clawback came back with a tec code went on and had its lock
\* validated: two policy submissions in one run
C15_Witness ==
  \E r \in Reqs :
    /\ req[r].pc = "done"
    /\ req[r].auto = "ok"
    /\ req[r].act["clawback"] = "fail"
    /\ req[r].act["lock"] = "ok"
    /\ submitted[req[r].uuid]["clawback"] > 0
    /\ applied[req[r].uuid]["lock"] > 0

(***************************************************************************)
(* Claims about single steps of the swap saga (SpecSwap)                   *)
(***************************************************************************)
\* C17: a run submits MPTokenAuthorize (starts to await the authorize
\* submission) only if the issuance requires authorization and the ledger
\* does not already show the payer authorized, i.e. no MPTokenAuthorize for
\* the payer (all payloads of the model are paid by one payer) has been
\* validated with success.
C17_AuthorizeOnlyIfLedgerUnauthorized ==
  [][\A r \in Reqs :
       (req'[r] # req[r] /\ req'[r].pc = "wait" /\ req'[r].step = "authorize") =>
         /\ issuance.requireAuth
         /\ \A u \in Uuids : applied[u]["authorize"] = 0]_vars

\* C20, the state part: a run that has recorded a failed clawback, lock or
\* unlock has issued (now or in an earlier run), the issue marker of the
\* event is there and the issue stays applied on the ledger; after a failed
\* lock the run submits no unlock, after a failed unlock it submits nothing
\* more; its result is auto = {ok: true, issuedTxid, actions}
FailureReported ==
  \A r \in Reqs :
    LET q == req[r]
    IN  \A s \in {"clawback", "lock", "unlock"} :
          q.act[s] = "fail" =>
            /\ q.act["issue"] \in {"ok", "already"}
            /\ (q.act["issue"] = "ok" \/ q.alreadyIssued # 0)
            /\ kv[q.uuid]["issue"] # 0
            /\ applied[q.uuid]["issue"] >= 1
            /\ q.act["lock"] = "fail" => ~RunSubmitted(q, "unlock")
            /\ q.auto \in {"none", "ok", "error500"}
            /\ (q.pc = "done" /\ q.auto # "error500") => q.auto = "ok"

\* C20, the step part: no marker is ever removed and nothing applied on the
\* ledger is ever taken back; when a clawback, lock or unlock submission
\* comes back failed (submitted, no marker written), the run records
\* ok: false for the step, does not stop with a failed stage, and markers
\* and ledger stay as they are
NothingUndone ==
  /\ \A u \in Uuids, s \in Steps :
       /\ kv[u][s] # 0 => kv'[u][s] # 0
       /\ applied'[u][s] >= applied[u][s]
  /\ \A r \in Reqs :
       LET q == req[r]
       IN  (/\ q.pc = "wait" /\ q.step \in {"clawback", "lock", "unlock"}
            /\ req'[r] # q
            /\ crashed' = crashed
            /\ submitted'[q.uuid][q.step] = submitted[q.uuid][q.step] + 1
            /\ kv'[q.uuid][q.step] = kv[q.uuid][q.step]) =>
             /\ req'[r].act[q.step] = "fail"
             /\ req'[r].auto \in {"none", "ok"}
             /\ kv' = kv
             /\ applied' = applied

\* C20: no rollback.  A failed clawback, lock or unlock is recorded as
\* ok: false in that step's outcome, the issue marker (written together
\* with the transfer audit row) remains, no compensating mutation is
\* submitted, and the result is still reported with the issued txid.
C20_NoRollback == []FailureReported /\ [][NothingUndone]_vars

\* the issue was validated, the lock came back with a tec code, and the run
\* answered ok with the issue marker in place and one issue on the ledger
C20_Witness ==
  \E r \in Reqs :
    /\ req[r].pc = "done"
    /\ req[r].auto = "ok"
    /\ req[r].act["issue"] = "ok"
    /\ req[r].act["lock"] = "fail"
    /\ kv[req[r].uuid]["issue"] # 0
    /\ kv[req[r].uuid]["lock"] = 0
    /\ applied[req[r].uuid]["issue"] = 1
    /\ applied[req[r].uuid]["lock"] = 0
    /\ submitted[req[r].uuid]["lock"] = 1

(***************************************************************************)
(* Claims about polls under a changing policy (SpecPolicy)                 *)
(***************************************************************************)
\* C16: across the polls of one payload uuid, with the policy flags and
\* the blacklist changed between polls, a lock is never submitted for an
\* event whose clawback already ran, and lock and unlock are never both
\* submitted for the same event: a run starts to await a lock only if the
\* event has no clawback marker and no unlock was submitted for it, and
\* starts to await an unlock only if no lock was submitted for it.
C16_NoLockAfterClawbackAcrossPolls ==
  [][\A r \in Reqs :
       (req'[r] # req[r] /\ req'[r].pc = "wait") =>
         /\ req'[r].step = "lock" =>
              /\ kv[req'[r].uuid]["clawback"] = 0
              /\ submitted[req'[r].uuid]["unlock"] = 0
         /\ req'[r].step = "unlock" =>
              submitted[req'[r].uuid]["lock"] = 0]_vars

(***************************************************************************)
(* Claims about the quantity to issue (SpecCalc, SpecSwap)                 *)
(***************************************************************************)
\* C18: the quantity a run computes is floor(2 * d / 1,000,000) for d > 0
\* delivered drops, floor(100 * v) for a delivered RLUSD value v > 0 (v =
\* n / 100, so floor(100 * v) = n), and 0 for another currency, a
\* non-positive or an absent amount; the delivered amount of the metadata
\* goes before the requested amount.
C18_DeliverableQuantity ==
  \A r \in Reqs :
    LET q == req[r]
        tx == ledgerTx[q.uuid]
        paid == IF tx.delivered # NoPaid THEN tx.delivered ELSE tx.amount
    IN  q.mptToSend # -1 =>
          q.mptToSend =
            CASE paid.type = "string" /\ paid.n > 0 -> (2 * paid.n) \div 1000000
              [] paid.type = "object" /\ paid.n > 0
                   /\ paid.currency \in {"RLUSD", "rlusd"} -> paid.n
              [] OTHER -> 0

\* C19, the state part: every run that has computed the quantity holds the
\* value given by the delivered amount of the payload's transaction (the
\* requested amount when the metadata has none), a run that submits the
\* issue or the clawback holds a positive quantity, and two runs for one
\* uuid hold the same quantity
SameQuantity ==
  /\ \A r \in Reqs :
       LET q == req[r]
           tx == ledgerTx[q.uuid]
           paid == IF tx.delivered # NoPaid THEN tx.delivered ELSE tx.amount
       IN  /\ q.mptToSend # -1 =>
                q.mptToSend = (IF paid.n <= 0 THEN 0 ELSE (2 * paid.n) \div 1000000)
           /\ (RunSubmitted(q, "issue") \/ RunSubmitted(q, "clawback")
                 \/ q.act["issue"] = "already") => q.mptToSend > 0
  /\ \A r1, r2 \in Reqs :
       (req[r1].uuid = req[r2].uuid /\ req[r1].mptToSend # -1
          /\ req[r2].mptToSend # -1) => req[r1].mptToSend = req[r2].mptToSend

\* C19, the step part: a validated transaction never changes, and a run
\* keeps the quantity it has computed
QuantityKept ==
  /\ \A u \in Uuids : ledgerTx[u].validated => ledgerTx'[u] = ledgerTx[u]
  /\ \A r \in Reqs :
       (req[r].pc = "wait" /\ req[r].mptToSend # -1 /\ req'[r].pc # "idle") =>
          req'[r].mptToSend = req[r].mptToSend

\* C19: for one payload uuid the quantity used for the issue submission,
\* for a clawback submission and reported by every later poll, polls that
\* find the issue already done included, is one value, computed from the
\* delivered amount of the validated transaction.
C19_QuantityImmutable == []SameQuantity /\ [][QuantityKept]_vars

\* a later poll found the issue already done, computed the quantity 2 again
\* for the 1 XRP delivered and had its clawback of that quantity validated
C19_Witness ==
  \E r \in Reqs :
    /\ req[r].pc = "done"
    /\ req[r].act["issue"] = "already"
    /\ req[r].act["clawback"] = "ok"
    /\ req[r].mptToSend = 2
    /\ ledgerTx[req[r].uuid].delivered = XrpPaid(1000000)
    /\ applied[req[r].uuid]["issue"] = 1
    /\ applied[req[r].uuid]["clawback"] = 1

(***************************************************************************)
(* Claims about verifyPaymentTx (SpecVerify)                               *)
(***************************************************************************)
\* what verifyPaymentTx gives for order 1 and the transaction of its payload
Verdict(threw) ==
  verifyPaymentTx(threw, orderLedger[1], ordersByPaymentPayload[1].buyer,
                  ordersByPaymentPayload[1].total,
                  ordersByPaymentPayload[1].paymentMethod)

\* the checks that come before the result code pass: lines 321-334
BeforeResultCode(tx, expectedBuyer) ==
  /\ tx # TxNotFound
  /\ tx.validated # "false"
  /\ tx.TransactionType = "Payment"
  /\ tx.Account = expectedBuyer
  /\ tx.Destination = STORE_ADDRESS

\* C11 as stated: ok only with tesSUCCESS; any other present result code
\* gives not_success; a missing result code, validated = false or a failed
\* query gives not_validated_yet.
C11_ResultCodeDecides ==
  LET tx == orderLedger[1]
  IN  /\ Verdict(FALSE) = "ok" => tx.result = "tesSUCCESS"
      /\ Verdict(TRUE) = "not_validated_yet"
      /\ tx.validated = "false" => Verdict(FALSE) = "not_validated_yet"
      /\ (tx # TxNotFound /\ tx.validated # "false") =>
            /\ tx.result \notin {"", "tesSUCCESS"} => Verdict(FALSE) = "not_success"
            /\ tx.result = "" => Verdict(FALSE) = "not_validated_yet"

\* C11, amended: ok only with tesSUCCESS; a failed query or validated =
\* false gives not_validated_yet; for a Payment from the expected buyer to
\* STORE_ADDRESS another present result code gives not_success and a
\* missing one not_validated_yet; a transaction that fails an earlier check
\* gets that check's reason whatever its result code.  /buy/status answers
\* pending and caches nothing for not_validated_yet, and caches the error
\* for every other reason.
C11_ResultClassification ==
  LET tx == orderLedger[1]
      buyer == ordersByPaymentPayload[1].buyer
      v == Verdict(FALSE)
  IN  /\ v = "ok" => tx.result = "tesSUCCESS"
      /\ Verdict(TRUE) = "not_validated_yet"
      /\ tx.validated = "false" => v = "not_validated_yet"
      /\ BeforeResultCode(tx, buyer) =>
            /\ tx.result \notin {"", "tesSUCCESS"} => v = "not_success"
            /\ tx.result = "" => v = "not_validated_yet"
      /\ (tx # TxNotFound /\ tx.validated # "false" /\ ~BeforeResultCode(tx, buyer)) =>
            v \in {"not_payment", "buyer_mismatch", "destination_mismatch"}
      /\ tx = TxNotFound => v = "tx_not_found"
      /\ \A b \in BReqs :
            /\ breq[b].pc = "mint" => tx.result = "tesSUCCESS"
            /\ (breq[b].pc = "disconnect" /\ breq[b].resp.status = "error"
                  /\ breq[b].resp.reason = "not_success")
                 => (BeforeResultCode(tx, buyer) /\ tx.result = "tecPATH_PARTIAL")
      /\ txCache[1].reason # "not_validated_yet"
      /\ mintRuns[1] > 0 => tx.result = "tesSUCCESS"

\* a Payment between the expected parties that ended with a tec code was
\* rejected with not_success and the rejection is cached
C11_Witness ==
  \E b \in BReqs :
    /\ BeforeResultCode(orderLedger[1], ordersByPaymentPayload[1].buyer)
    /\ orderLedger[1].result = "tecPATH_PARTIAL"
    /\ breq[b].pc = "done"
    /\ breq[b].resp.status = "error"
    /\ breq[b].resp.reason = "not_success"
    /\ txCache[1].reason = "not_success"
    /\ minted[1] = 0

\* the transaction of order 1 reached the amount comparison: lines 321-340
ReachedAmount ==
  /\ BeforeResultCode(orderLedger[1], ordersByPaymentPayload[1].buyer)
  /\ orderLedger[1].result = "tesSUCCESS"

\* C12: the asset and the amount are compared exactly and by type.  For a
\* transaction that reached the amount comparison the verdict is ok exactly
\* when: xrp, Amount is a string equal to the expected total in drops;
\* rlusd, Amount is an object whose currency code (trimmed, upper case),
\* issuer and value string equal the expected ones; mpt, Amount is an
\* object whose issuance id (trimmed, upper case) and value string equal
\* the expected ones.  Every other verdict is the reason code of a
\* difference that is present, and a mint starts only after ok.
C12_ExactTypedAmount ==
  LET amt == orderLedger[1].Amount
      o == ordersByPaymentPayload[1]
      v == Verdict(FALSE)
      want == numToString(o.total)
      cur == safeUpper(amt.currency) = "RLUSD"
      iss == amt.issuer = RLUSD_ISSUER
      id == safeUpper(amt.mpt_issuance_id) = KFD_MPT_ISSUANCE_ID
      same == CASE o.paymentMethod = "xrp" ->
                     amt.type = "string" /\ amt.value = xrpToDrops(o.total)
                [] o.paymentMethod = "rlusd" ->
                     amt.type = "object" /\ cur /\ iss /\ amt.value = want
                [] OTHER ->
                     amt.type = "object" /\ id /\ amt.value = want
  IN  /\ ReachedAmount =>
        /\ (v = "ok") <=> same
        /\ v = "amount_not_xrp_string" <=> (o.paymentMethod = "xrp" /\ amt.type # "string")
        /\ v = "amount_not_token_object" <=> (o.paymentMethod = "rlusd" /\ amt.type # "object")
        /\ v = "amount_not_object" <=> (o.paymentMethod = "mpt" /\ amt.type # "object")
        /\ v = "currency_mismatch" <=>
             (o.paymentMethod = "rlusd" /\ amt.type = "object" /\ ~cur)
        /\ v = "issuer_mismatch" <=>
             (o.paymentMethod = "rlusd" /\ amt.type = "object" /\ cur /\ ~iss)
        /\ v = "issuance_mismatch" <=>
             (o.paymentMethod = "mpt" /\ amt.type = "object" /\ ~id)
        /\ v = "amount_mismatch" =>
             amt.value # (IF o.paymentMethod = "xrp" THEN xrpToDrops(o.total) ELSE want)
        /\ v \in {"ok", "amount_not_xrp_string", "amount_not_token_object",
                  "amount_not_object", "currency_mismatch", "issuer_mismatch",
                  "issuance_mismatch", "amount_mismatch"}
      /\ (mintRuns[1] > 0 \/ \E b \in BReqs : breq[b].pc = "mint") =>
           (ReachedAmount /\ same)
      /\ (ReachedAmount /\ ~same /\ txCache[1] # NoResult) =>
           (txCache[1].status = "error" /\ txCache[1].reason = v)

\* an RLUSD payment of the right value in the right currency code from
\* another issuer was rejected with issuer_mismatch and nothing was minted
C12_Witness ==
  \E b \in BReqs :
    /\ ReachedAmount
    /\ ordersByPaymentPayload[1].paymentMethod = "rlusd"
    /\ orderLedger[1].Amount.type = "object"
    /\ safeUpper(orderLedger[1].Amount.currency) = "RLUSD"
    /\ orderLedger[1].Amount.issuer # RLUSD_ISSUER
    /\ orderLedger[1].Amount.value = numToString(ordersByPaymentPayload[1].total)
    /\ breq[b].pc = "done"
    /\ breq[b].resp.status = "error"
    /\ breq[b].resp.reason = "issuer_mismatch"
    /\ minted[1] = 0

\* C13, the pin: a buyer that is set is never replaced
BuyerPinned ==
  \A p \in PUuids :
    ordersByPaymentPayload[p].buyer # "" =>
      ordersByPaymentPayload'[p].buyer = ordersByPaymentPayload[p].buyer

\* C13, the rejections: with a pinned buyer, a payload signed by another
\* account is answered "Buyer mismatch for this order" and starts no job; a
\* transaction whose Account is another account never passes verification;
\* in both cases nothing is minted and the order is not completed
MismatchRejected ==
  LET order == ordersByPaymentPayload[1]
      signer == xummPayload[1].account
      tx == orderLedger[1]
  IN  /\ (order.buyer # "" /\ signer # order.buyer) =>
           /\ \A b \in BReqs :
                /\ breq[b].pc \in {"idle", "xget", "done"}
                /\ breq[b].pc = "done" =>
                     breq[b].resp = Result("error", "Buyer mismatch for this order")
           /\ ~inflight[1]
           /\ txCache[1] = NoResult
      /\ (order.buyer # "" /\ tx # TxNotFound /\ tx.Account # order.buyer) =>
           /\ \A b \in BReqs :
                /\ breq[b].pc # "mint"
                /\ breq[b].resp.status # "success"
                /\ (breq[b].resp.status = "error" /\ tx.validated = "true"
                      /\ tx.TransactionType = "Payment"
                      /\ signer = order.buyer) => breq[b].resp.reason = "buyer_mismatch"
           /\ txCache[1].status # "success"
      /\ (order.buyer # "" /\ (signer # order.buyer \/ tx = TxNotFound
                                 \/ tx.Account # order.buyer)) =>
           /\ minted[1] = 0
           /\ mintRuns[1] = 0
           /\ 1 \notin processedTx
           /\ order.status = "created"
           /\ completedByPayload[1] = NoResult
      /\ order.buyer = "" => \A b \in BReqs : breq[b].pc \in {"idle", "xget"}

\* C13: once an order's buyer is set (at creation, or from the first signed
\* payload observed) it never changes, and a GET /buy/status whose payload
\* signer or whose transaction Account differs from the pinned buyer is
\* rejected without minting and without completing the order.
C13_PayerPinning == [][BuyerPinned]_vars /\ []MismatchRejected

\* the order was created for rBuyer, its transaction is a successful Payment
\* of the right amount to the store sent by rMallory, and the request was
\* rejected with buyer_mismatch while the order still names rBuyer
C13_Witness ==
  \E b \in BReqs :
    /\ ordersByPaymentPayload[1].buyer = "rBuyer"
    /\ xummPayload[1].account = "rBuyer"
    /\ orderLedger[1] # TxNotFound
    /\ orderLedger[1].Account = "rMallory"
    /\ orderLedger[1].Destination = STORE_ADDRESS
    /\ orderLedger[1].result = "tesSUCCESS"
    /\ orderLedger[1].Amount =
         buildPaymentAmount(ordersByPaymentPayload[1].paymentMethod,
                            ordersByPaymentPayload[1].total)
    /\ breq[b].pc = "done"
    /\ breq[b].resp.reason = "buyer_mismatch"
    /\ minted[1] = 0
    /\ ordersByPaymentPayload[1].status = "created"

(***************************************************************************)
(* Claims about the txid cache and retries (SpecBuy)                       *)
(***************************************************************************)
\* request b calls verifyPaymentTx in this step
Verifies(b) == breq[b].pc = "verify" /\ breq'[b].pc # "verify"

\* C21 as stated: once a terminal outcome has been cached for a txid, no
\* later poll calls verifyPaymentTx for that txid, whatever sweeps and time
\* have passed.
C21_NeverVerifiedAgain ==
  [][\A b \in BReqs : Verifies(b) => ~txHistory[breq[b].txid].cached]_vars

\* C21, amended: a cached outcome stays in txCache until a sweeper pass
\* finds it older than TX_CACHE_TTL.  While it is there no poll calls
\* verifyPaymentTx for the txid; a txid whose verification was ok is never
\* verified again; a txid with a cached outcome is verified again only
\* after its entry has been swept, more than TX_CACHE_TTL after the start.
C21_CachedUntilSwept ==
  [][/\ \A t \in Txids :
          (txCache[t] # NoResult /\ txCache'[t] # txCache[t]) =>
             /\ txCache'[t] = NoResult
             /\ now - txCache[t].at > TX_CACHE_TTL
     /\ \A b \in BReqs :
          Verifies(b) =>
             /\ txCache[breq[b].txid] = NoResult
             /\ "ok" \notin txHistory[breq[b].txid].verdicts
             /\ txHistory[breq[b].txid].cached => now > TX_CACHE_TTL]_vars

\* the hard failure of a txid was cached and swept, and a later poll has
\* called verifyPaymentTx for it again
C21_Witness ==
  \E b \in BReqs :
    /\ breq[b].pc = "disconnect"
    /\ breq[b].resp.status = "error"
    /\ txHistory[breq[b].txid].cached
    /\ txCache[breq[b].txid] = NoResult
    /\ now > TX_CACHE_TTL

\* C22: when verifyPaymentTx returns not_validated_yet (and the ledger
\* client disconnects normally), /buy/status answers pending, caches nothing
\* for the txid, does not add it to processedTx and releases the in-flight
\* claim, so that the guards of a later poll are all open and it verifies
\* again.
C22_NotValidatedYetIsRetryable ==
  [][\A b \in BReqs :
       LET t == breq[b].txid IN
       /\ (Verifies(b) /\ "not_validated_yet" \in txHistory'[t].verdicts \ txHistory[t].verdicts) =>
             /\ breq'[b].pc = "disconnect"
             /\ breq'[b].resp = Result("pending", "")
             /\ processedTx' = processedTx
             /\ txCache' = txCache
       /\ (/\ breq[b].pc = "disconnect"
           /\ breq[b].resp.status = "pending"
           /\ breq'[b].pc = "done"
           /\ breq'[b].resp.status # "error500") =>
             /\ breq'[b].resp = Result("pending", "")
             /\ txCache' = txCache
             /\ txCache'[t] = NoResult
             /\ txHistory'[t].cached = txHistory[t].cached
             /\ t \notin processedTx'
             /\ ~inflight'[t]]_vars

\* a txid was answered not_validated_yet, a later poll verified it again
\* and the order was completed with its units minted
C22_Witness ==
  \E p \in PUuids, t \in Txids :
    /\ ordersByPaymentPayload[p].txid = t
    /\ {"not_validated_yet", "ok"} \subseteq txHistory[t].verdicts
    /\ completedByPayload[p].status = "success"
    /\ minted[t] = ordersByPaymentPayload[p].units

(***************************************************************************)
(* Claims about closed wallet payloads (SpecCancel)                        *)
(***************************************************************************)
\* C23: for an order whose wallet payload is cancelled or expired,
\* GET /buy/status answers a terminal rejection, never pending, and starts
\* no verification or minting job.
C23_ClosedPayloadRejected ==
  [][\A b \in BReqs :
       (/\ breq[b].pc = "xget"
        /\ xummPayload[breq[b].p].closed # ""
        /\ breq'[b] # breq[b]) =>
          /\ breq'[b].pc = "done"
          /\ breq'[b].resp.status \notin {"pending", "success"}
          /\ inflight' = inflight]_vars

(***************************************************************************)
(* Claims about the progress of a started job (SpecBuyLive)                *)
(***************************************************************************)
\* C24: once /buy/status has started a verification-and-mint job for a
\* txid, then under continued polling a terminal outcome (success or a hard
\* verification failure) is eventually cached for that txid, also when the
\* job fails on a transient fault of the ledger client.
C24_StartedJobTerminates ==
  \A t \in Txids : inflight[t] ~> txHistory[t].cached

(***************************************************************************)
(* Claims about the sweeper and completed orders (SpecBuy)                 *)
(***************************************************************************)
\* C25: a sweeper pass leaves every order that is not completed unchanged,
\* whatever its age; it removes an order only if the order is completed and
\* its completedAt is more than ORDER_TTL_MS ago, and after the pass every
\* such order is gone.
C25_SweepOnlyOldCompleted ==
  [][Sweep =>
       \A p \in PUuids :
         LET order == ordersByPaymentPayload[p]
             old == /\ order.status = "completed"
                    /\ order.completedAt # 0
                    /\ now - order.completedAt > ORDER_TTL_MS
         IN  /\ ~old => ordersByPaymentPayload'[p] = order
             /\ old => ordersByPaymentPayload'[p].status = "swept"]_vars

\* an order that was never completed is older than ORDER_TTL_MS and is still
\* there after a sweeper pass (the pass that dropped the cached failure)
C25_Witness ==
  \E p \in PUuids :
    /\ ordersByPaymentPayload[p].status = "created"
    /\ now - ordersByPaymentPayload[p].createdAt > ORDER_TTL_MS
    /\ ordersByPaymentPayload[p].txid # 0
    /\ txHistory[ordersByPaymentPayload[p].txid].cached
    /\ txCache[ordersByPaymentPayload[p].txid] = NoResult

\* C26: the status of an order only moves from created to completed (and
\* from there out of the map), never back; and once /buy/status has
\* answered success for a payload_uuid, every poll that arrives later is
\* answered at once with the cached success, or with completed_or_expired
\* after the TTL sweep, and no job is started for the order again.
C26_CompletedIsFinal ==
  [][\A p \in PUuids :
       LET order == ordersByPaymentPayload[p] IN
       /\ order.status = "created" => ordersByPaymentPayload'[p].status \in {"created", "completed"}
       /\ order.status = "completed" => ordersByPaymentPayload'[p].status \in {"completed", "swept"}
       /\ order.status \in {"swept", "none"} => ordersByPaymentPayload'[p].status = order.status
       /\ order.status \in {"completed", "swept"} =>
            \A b \in BReqs :
              /\ (breq[b].pc \in {"idle", "done"} /\ breq'[b] # breq[b] /\ breq'[b].p = p) =>
                    /\ breq'[b].pc = "done"
                    /\ breq'[b].resp.status \in {"success", "completed_or_expired"}
                    /\ breq'[b].resp.status = "success" =>
                          breq'[b].resp = [completedByPayload[p] EXCEPT !.at = 0]
              /\ (breq[b].p = p /\ breq'[b].pc = "connect") => breq[b].pc = "connect"]_vars

\* the order was completed and swept, and a later poll for its payload was
\* answered completed_or_expired
C26_Witness ==
  \E b \in BReqs :
    /\ breq[b].pc = "done"
    /\ breq[b].resp.status = "completed_or_expired"
    /\ ordersByPaymentPayload[breq[b].p].status = "swept"
    /\ ordersByPaymentPayload[breq[b].p].txid \in processedTx

\* C27: /buy/status reports success and marks the order completed only if
\* every ordered unit was minted and offered to the buyer; an order with a
\* failed mint or offer does not end in the completed state.
C27_CompletedMeansAllMinted ==
  \A p \in PUuids :
    (\/ ordersByPaymentPayload[p].status = "completed"
     \/ completedByPayload[p].status = "success") =>
       /\ completedByPayload[p].total_nfts = ordersByPaymentPayload[p].units
       /\ completedByPayload[p].offers = ordersByPaymentPayload[p].units
       /\ minted[ordersByPaymentPayload[p].txid] = ordersByPaymentPayload[p].units

(***************************************************************************)
(* Claims about the start and the order of the swap steps (SpecSwap)       *)
(***************************************************************************)
\* C28: when no active issuance id is configured, or the issuance's ledger
\* entry is not found, a poll for a signed and validated payment ends with
\* auto = {ok: false, stage: "bootstrap"}: no step is attempted, nothing is
\* submitted to the ledger and no done marker is written.
C28_BootstrapFailureIsInert ==
  /\ [](~(issuance.idSet /\ issuance.nodeFound) =>
          \A u \in Uuids, s \in Steps : submitted[u][s] = 0 /\ kv[u][s] = 0)
  /\ [][(polls' # polls /\ ~(issuance.idSet /\ issuance.nodeFound)) =>
          /\ kv' = kv /\ submitted' = submitted /\ applied' = applied
          /\ \A r \in Reqs :
               (/\ req'[r] # req[r]
                /\ ledgerTx[req'[r].uuid].signed
                /\ ledgerTx[req'[r].uuid].validated) =>
                  /\ req'[r].pc = "done"
                  /\ req'[r].auto = "bootstrap"
                  /\ req'[r].mptToSend = -1
                  /\ \A s \in Steps : req'[r].act[s] = "none"]_vars

\* a validated payment was polled while the issuance was not ready
C28_Witness ==
  \E r \in Reqs :
    /\ req[r].pc = "done"
    /\ req[r].auto = "bootstrap"
    /\ ledgerTx[req[r].uuid].validated
    /\ ~(issuance.idSet /\ issuance.nodeFound)

(***************************************************************************)
(* Claims about the audit tables (SpecAudit)                               *)
(***************************************************************************)
\* C29: inserting an audit row is idempotent on txid: a table never holds
\* two rows with one txid; a call with a txid that the table already has
\* leaves the table as it was and throws nothing; a call without a txid
\* inserts nothing.
C29_AuditInsertIdempotent ==
  /\ [](/\ ~audit.threw
        /\ \A tb \in DOMAIN audit.rows :
             \A r1, r2 \in audit.rows[tb] :
               /\ r1.txid # <<>>
               /\ r1.txid = r2.txid => r1 = r2)
  /\ [][\A tb \in DOMAIN audit.rows :
          /\ audit.rows[tb] \subseteq audit'.rows[tb]
          /\ Cardinality(audit'.rows[tb]) <= Cardinality(audit.rows[tb]) + 1
          /\ audit'.error = "UNIQUE" => audit'.rows = audit.rows]_vars

\* a call repeated the txid of a row: the INSERT raised the UNIQUE error and
\* the call swallowed it
C29_Witness ==
  /\ audit.error = "UNIQUE"
  /\ ~audit.threw
  /\ \E tb \in DOMAIN audit.rows : Cardinality(audit.rows[tb]) = NAuditTx

\* C30: within one run the steps come strictly in order.  The issue is
\* attempted only after authorize ended ok, skipped or already done and a
\* positive quantity was computed; clawback, lock and unlock only after the
\* issue ended ok or already done; a failed authorize or issue, or a
\* quantity <= 0, ends the run, and no later step is submitted by it.
C30_StepsInOrder ==
  /\ [](\A r \in Reqs :
          LET q == req[r]
              At(s) == (q.pc = "wait" /\ q.step = s) \/ q.act[s] # "none"
              Later(S) == \A s \in S : q.act[s] = "none" /\ q.step # s
          IN  /\ At("issue") => /\ q.act["authorize"] \in {"ok", "skip", "already"}
                                /\ q.mptToSend > 0
              /\ \A s \in {"clawback", "lock", "unlock"} :
                   At(s) => q.act["issue"] \in {"ok", "already"}
              /\ (q.pc = "done" /\ q.auto = "authorize") =>
                   Later({"issue", "clawback", "lock", "unlock"})
              /\ (q.pc = "done" /\ q.auto = "calc") =>
                   q.mptToSend <= 0 /\ Later({"issue", "clawback", "lock", "unlock"})
              /\ (q.pc = "done" /\ q.auto = "issue") =>
                   Later({"clawback", "lock", "unlock"}))
  /\ [][/\ \A u \in Uuids, s \in Steps :
             submitted'[u][s] > submitted[u][s] =>
               \E r \in Reqs : req[r].pc = "wait" /\ req[r].uuid = u /\ req[r].step = s
        /\ \A r \in Reqs :
             (/\ req[r].pc = "wait"
              /\ req[r].step \in {"authorize", "issue"}
              /\ req'[r] # req[r]
              /\ submitted' # submitted
              /\ applied' = applied) =>
                /\ req'[r].pc = "done"
                /\ req'[r].auto = req[r].step]_vars

\* a run has authorized and issued, in that order, and now awaits the lock
C30_Witness ==
  \E r \in Reqs :
    /\ req[r].pc = "wait"
    /\ req[r].step = "lock"
    /\ req[r].act["authorize"] = "ok"
    /\ req[r].act["issue"] = "ok"
    /\ submitted[req[r].uuid]["authorize"] > 0
    /\ submitted[req[r].uuid]["issue"] > 0

(***************************************************************************)
(* Claims about done markers, policy and capabilities (SpecSwap, SpecPolicy)*)
(***************************************************************************)
\* C31: the done marker of a step is written only when that step's
\* submission came back validated with tesSUCCESS, and holds the txid of
\* that submission; the run that wrote it reports the step ok with that
\* txid, and a step reported ok has its marker; a failed submission writes
\* no marker; and a run of sequential polls that finds the marker reports
\* the step as already done with the stored txid and does not submit it.
C31_MarkersTrackSuccess ==
  /\ [](\A r \in Reqs, s \in Steps :
          LET q == req[r] IN
          /\ q.act[s] = "ok" =>
               /\ q.txid[s] # 0
               /\ kv[q.uuid][s] >= q.txid[s]
               /\ ~overlapped => kv[q.uuid][s] = q.txid[s]
          /\ (q.act[s] = "already" /\ ~overlapped) =>
               /\ kv[q.uuid][s] # 0
               /\ q.txid[s] = kv[q.uuid][s])
  /\ [][\A u \in Uuids, s \in Steps :
          /\ kv'[u][s] # kv[u][s] =>
               /\ submitted'[u][s] = submitted[u][s] + 1
               /\ applied'[u][s] = applied[u][s] + 1
               /\ kv'[u][s] = submitted'[u][s]
               /\ \E r \in Reqs :
                    /\ req[r].pc = "wait" /\ req[r].uuid = u /\ req[r].step = s
                    /\ req'[r].act[s] = "ok"
                    /\ req'[r].txid[s] = kv'[u][s]
          /\ (submitted'[u][s] > submitted[u][s] /\ applied'[u][s] = applied[u][s]) =>
               kv' = kv
          /\ \A r \in Reqs :
               (/\ ~overlapped'
                /\ req'[r].pc = "wait" /\ req'[r].uuid = u /\ req'[r].step = s
                /\ req'[r] # req[r]) =>
                  kv'[u][s] = 0]_vars

\* a later poll, with no other request in progress, found the issue marker
\* and a policy step's marker and reported both as already done
C31_Witness ==
  \E r \in Reqs :
    /\ ~overlapped
    /\ crashed = 0
    /\ req[r].pc = "done"
    /\ req[r].act["issue"] = "already"
    /\ req[r].txid["issue"] = kv[req[r].uuid]["issue"]
    /\ \E s \in {"clawback", "lock", "unlock"} : req[r].act[s] = "already"
    /\ submitted[req[r].uuid]["issue"] = 1

\* C32: the three policy flags and the payer's blacklist membership are
\* read once, before the first step of a run; the run keeps that snapshot
\* whatever POST /api/kfd/policy and blacklist requests arrive while it
\* awaits the ledger, and which of clawback, lock and unlock it executes is
\* decided by the snapshot alone.
C32_PolicyFixedForRun ==
  /\ [](\A r \in Reqs :
          LET q == req[r]
              Tried(s) == (q.pc = "wait" /\ q.step = s)
                          \/ q.act[s] \in {"ok", "already", "fail", "nocap"}
              claw == q.pol.autoClaw /\ q.pol.blacklisted
              clawRan == q.act["clawback"] \in {"ok", "already"}
          IN  /\ Tried("clawback") => claw
              /\ q.act["clawback"] = "skip" => ~claw
              /\ Tried("lock") => q.pol.autoLock /\ ~clawRan
              /\ q.act["lock"] = "skip" => ~(q.pol.autoLock /\ ~clawRan)
              /\ Tried("unlock") => q.pol.autoUnlock /\ ~q.pol.autoLock /\ ~clawRan
              /\ q.act["unlock"] = "skip" =>
                   ~(q.pol.autoUnlock /\ ~q.pol.autoLock /\ ~clawRan))
  /\ [][\A r \in Reqs :
          /\ (req[r].pc = "wait" /\ req'[r].pc # "idle") => req'[r].pol = req[r].pol
          /\ (polls' # polls /\ req'[r] # req[r] /\ req'[r].auto # "none") =>
               req'[r].pol = policy]_vars

\* the payer was taken off the blacklist and the clawback flag was cleared
\* while a run awaited its issue; the run went on to submit the clawback
C32_Witness ==
  \E r \in Reqs :
    /\ req[r].pc = "wait"
    /\ req[r].step = "clawback"
    /\ req[r].act["issue"] = "ok"
    /\ req[r].pol.autoClaw /\ req[r].pol.blacklisted
    /\ ~policy.autoClaw /\ ~policy.blacklisted

\* C33: when the policy selects clawback and the issuance cannot claw
\* back, or selects lock / unlock and the issuance cannot lock, the run
\* submits nothing for that step and records it as {ok: false, skipped:
\* true}; the steps after it are still evaluated and the run ends ok
\* (unless a later submission throws); and the manual endpoints submit nothing either for a step the issuance is
\* not capable of.
C33_CapabilityGate ==
  \A s \in {"clawback", "lock", "unlock"} :
    LET capable == IF s = "clawback" THEN issuance.canClawback ELSE issuance.canLock IN
    /\ ~capable => \A u \in Uuids \cup {0} : submitted[u][s] = 0 /\ applied[u][s] = 0
    /\ \A r \in Reqs :
         LET q == req[r]
             clawRan == q.act["clawback"] \in {"ok", "already"}
             selected == CASE s = "clawback" -> q.pol.autoClaw /\ q.pol.blacklisted
                           [] s = "lock" -> q.pol.autoLock /\ ~clawRan
                           [] OTHER -> q.pol.autoUnlock /\ ~q.pol.autoLock /\ ~clawRan
         IN  /\ q.act[s] = "nocap" <=> (q.act[s] # "none" /\ selected /\ ~capable)
             /\ (q.pc = "wait" /\ q.step = s) => capable
             /\ (q.act[s] = "nocap" /\ q.pc = "done" /\ q.auto # "error500") =>
                  /\ q.auto = "ok"
                  /\ \A s2 \in {"clawback", "lock", "unlock"} : q.act[s2] # "none"
             /\ (q.act["clawback"] = "nocap" /\ q.pol.autoLock /\ issuance.canLock) =>
                  \/ q.pc = "wait" /\ q.step = "lock"
                  \/ q.act["lock"] \in {"ok", "already", "fail"}
                  \/ q.pc = "done" /\ q.auto = "error500"

\* the policy selected the clawback on an issuance that cannot claw back
\* but can lock: the run skipped the clawback and went on to submit the lock
C33_Witness ==
  \E r \in Reqs :
    /\ ~issuance.canClawback
    /\ req[r].pc = "done"
    /\ req[r].act["clawback"] = "nocap"
    /\ req[r].act["lock"] = "ok"
    /\ submitted[req[r].uuid]["lock"] = 1
    /\ submitted[0]["lock"] = 1

(***************************************************************************)
(* Claims about the store's RLUSD trust line (SpecCreate)                  *)
(***************************************************************************)
\* C35: an RLUSD order is refused while the store has no RLUSD trust line:
\* the job fails (error response), no wallet payload is requested and so
\* no order is stored and nothing is cached.
C35_NoTrustLineNoOrder ==
  \A c \in CReqs :
    creq[c].trust = "missing" =>
      /\ creq[c].pc # "create"
      /\ creq[c].pc = "done" => creq[c].resp = -1

(***************************************************************************)
(* Claims about the in-flight claim of a txid (SpecBuy)                    *)
(***************************************************************************)
\* C36: the in-flight claim of a txid is held only while the request that
\* started the job is still being served: once that request has answered,
\* with any response (a 500 after a job that threw included), the claim is
\* released.
C36_ClaimReleasedAfterRequest ==
  \A t \in Txids :
    inflight[t] =>
      \E b \in BReqs : breq[b].txid = t /\ breq[b].pc \notin {"idle", "done"}

(***************************************************************************)
(* Claims about ordering again after completion (SpecReorder)              *)
(***************************************************************************)
\* C37: POST /create-order never hands out a finished order: whenever a
\* request answers with a payload_uuid, from a new job or from
\* createOrderCache, the order of that payload has status "created".
C37_HandsOutOpenOrdersOnly ==
  [][\A c \in CReqs :
       ( /\ creq'[c].pc = "done"
         /\ creq'[c].resp > 0
         /\ creq[c].pc # "done" \/ (creates' # creates /\ FreeCSlot(c)) )
       => ordersByPaymentPayload'[creq'[c].resp].status = "created"]_vars

(***************************************************************************)
(* Claims about the delivered amount (SpecVerify)                          *)
(***************************************************************************)
\* C38: verifyPaymentTx accepts a payment only if the amount delivered to
\* the store is the expected total: a transaction that delivered less than
\* its Amount (a partial payment) is never accepted, so no mint loop is
\* started for it.
C38_PartialPaymentRejected ==
  orderLedger[1].partial =>
    /\ "ok" \notin txHistory[1].verdicts
    /\ mintRuns[1] = 0

(***************************************************************************)
(* Claims about events of no value (SpecSwap)                              *)
(***************************************************************************)
\* C40: when the quantity computed from the validated transaction of a
\* payload is <= 0, the polls of that payload submit no ledger mutation at
\* all, a holder authorization included.
C40_NothingForWorthlessEvent ==
  \A u \in Uuids :
    calcMptToSendFromPayment(ledgerTx[u]) <= 0 =>
      \A s \in Steps : submitted[u][s] = 0

(***************************************************************************)
(* Claims about the confirmation polling loops (SpecLoops)                 *)
(***************************************************************************)
\* C34: every confirmation polling loop is bounded: waitTxValidated makes
\* at most 20 queries, pollPayload at most 200 polls, pollBuyStatus stops
\* once MAX_POLL_MS has passed, and pollBurnStatus and startLogin stop too,
\* even when the payload is never signed or cancelled (it expires).
C34_LoopsStop ==
  /\ [](loop.name = "waitTxValidated" => loop.i <= tries)
  /\ [](loop.name = "pollPayload" => loop.i <= max)
  /\ [](loop.name = "pollBuyStatus" => loop.i * POLL_INTERVAL_MS <= MAX_POLL_MS)
  /\ (loop.pc \in {"run", "sleep"} ~> loop.pc = "stopped")

(***************************************************************************)
(* Claims about the burn-to-unlock flow (SpecLocker)                       *)
(***************************************************************************)
\* C7: for a registered burn, the unlock fires only in a request whose
\* inventory read showed the NFTokenID absent.
C7_UnlockOnlyAfterAbsent ==
  \A l \in LReqs :
    (lreq[l].pc = "done" /\ lreq[l].unlockResult /\ lreq[l].r.nftokenId # 0)
       => lreq[l].burnedOnChain

\* C8: the unlock fires at most once per burn uuid, whatever the polls.
C8_UnlockOnce == \A u \in BurnUuids : opens[u] <= 1

\* C39: the unlock fires only for a burn uuid that POST /api/redeem
\* registered, i.e. one whose redeems entry has an account and an NFTokenID;
\* for another uuid no unlock fires and no redeems entry is created.
C39_UnlockOnlyRegistered ==
  \A u \in BurnUuids :
    (opens[u] > 0 \/ redeems[u].has) =>
       (redeems[u].account # "" /\ redeems[u].nftokenId # 0)
====
